---- MODULE Spec2Model ----
(***************************************************************************)
(* Model of fuzzyblue's precompute pipeline (src/src/precompute.rs):       *)
(* Atmosphere::build records a fixed + iterative sequence of compute       *)
(* dispatches and barriers into a command buffer and returns a             *)
(* PendingAtmosphere; the caller submits the command buffer, and after it  *)
(* retires calls assert_ready (or drops the PendingAtmosphere).            *)
(*                                                                         *)
(* A recorded command is a record with an `op` field; the command buffer   *)
(* is the sequence of those records in recording order.  Access and stage  *)
(* masks are sets of flag names, layouts are layout names, a queue family  *)
(* is a number and Option<u32> is <<>> (None) or <<v>> (Some(v)).          *)
(***************************************************************************)
EXTENDS Integers, Sequences, FiniteSets, TLC

(***************************************************************************)
(* Bounds of the model                                                     *)
(***************************************************************************)
\* largest Parameters.order explored (the loop runs order-1 times)
MaxOrder == 3
\* largest number of acquire_ownership / draw operations recorded into one
\* graphics command buffer
MaxGfxOps == 2
\* largest number of Arc<Builder> handles the caller keeps besides the one it
\* passed to the first build
MaxHandles == 1

(***************************************************************************)
(* Vulkan values used by the code                                          *)
(***************************************************************************)
\* vk::QUEUE_FAMILY_IGNORED is !0u32; written -1 here (no queue family has that index)
QUEUE_FAMILY_IGNORED == -1

None == <<>>

Some(v) == <<v>>

unwrap_or(opt, default) == IF opt = None THEN default ELSE opt[1]

\* u32::to_ne_bytes on a little-endian target: four bytes, least significant first
to_ne_bytes(n) ==
    << n % 256, (n \div 256) % 256, (n \div 65536) % 256, (n \div 16777216) % 256 >>

\* what the shader reads back from a 4-byte push-constant block (layout uint)
from_ne_bytes(b) == b[1] + 256 * b[2] + 65536 * b[3] + 16777216 * b[4]

(***************************************************************************)
(* Images and resources                                                    *)
(***************************************************************************)
\* the Image fields of Atmosphere (final look-up tables)
FinalImages == {"transmittance", "scattering", "irradiance"}

\* the Image fields of PendingAtmosphere (transient images)
TransientImages ==
    {"delta_irradiance", "delta_rayleigh", "delta_mie", "scattering_density",
     "delta_multiple_scattering"}

Images == FinalImages \cup TransientImages

\* struct Image { handle, view, memory }
ImageParts == {"view", "handle", "memory"}

\* what Drop for Atmosphere destroys
AtmosphereResources ==
    (FinalImages \X ImageParts)
        \cup {<<"params", "buffer">>, <<"params_mem", "memory">>,
              <<"persistent_pool", "pool">>}

\* what Drop for PendingAtmosphere destroys itself
PendingResources ==
    (TransientImages \X ImageParts) \cup {<<"descriptor_pool", "pool">>}

Resources == AtmosphereResources \cup PendingResources

(***************************************************************************)
(* Parameters                                                              *)
(***************************************************************************)
\* the eight size fields of Parameters; two representative tuples
SizeChoices ==
    { [transmittance_mu_size |-> 4, transmittance_r_size |-> 2,
       scattering_r_size |-> 2, scattering_mu_size |-> 3,
       scattering_mu_s_size |-> 2, scattering_nu_size |-> 2,
       irradiance_mu_s_size |-> 3, irradiance_r_size |-> 1],
      [transmittance_mu_size |-> 256, transmittance_r_size |-> 64,
       scattering_r_size |-> 32, scattering_mu_size |-> 128,
       scattering_mu_s_size |-> 32, scattering_nu_size |-> 8,
       irradiance_mu_s_size |-> 64, irradiance_r_size |-> 16] }

\* sizes whose product scattering_nu_size * scattering_mu_s_size does not fit in
\* a u32
OverflowSizeChoices ==
    { [transmittance_mu_size |-> 4, transmittance_r_size |-> 2,
       scattering_r_size |-> 2, scattering_mu_size |-> 3,
       scattering_mu_s_size |-> 65536, scattering_nu_size |-> 65537,
       irradiance_mu_s_size |-> 3, irradiance_r_size |-> 1] }

\* caller-specified final layouts
LayoutChoices == {"SHADER_READ_ONLY_OPTIMAL", "TRANSFER_SRC_OPTIMAL"}

\* caller-specified destination access masks
AccessChoices == {{"SHADER_READ"}, {"TRANSFER_READ"}}

\* caller-specified destination stage masks
StageChoices == {{"FRAGMENT_SHADER"}, {"TRANSFER"}}

\* graphics queue family and optional compute queue family given to Builder::new
GfxFamilies == {0}

ComputeFamilies == {None, Some(0), Some(1)}

transmittance_extent(p) ==
    [width |-> p.sizes.transmittance_mu_size, height |-> p.sizes.transmittance_r_size]

irradiance_extent(p) ==
    [width |-> p.sizes.irradiance_mu_s_size, height |-> p.sizes.irradiance_r_size]

\* the 64-bit product of two u32 values, as eight bytes, least significant first
wide_mul(a, b) ==
    LET x == to_ne_bytes(a)
        y == to_ne_bytes(b)
        sum(k, i) ==
            IF k - i \in 0 .. 3 THEN x[i + 1] * y[k - i + 1] ELSE 0
        column(k) == sum(k, 0) + sum(k, 1) + sum(k, 2) + sum(k, 3)
        carry[k \in 0 .. 8] ==
            IF k = 0 THEN 0 ELSE (column(k - 1) + carry[k - 1]) \div 256
    IN  [k \in 1 .. 8 |-> (column(k - 1) + carry[k - 1]) % 256]

\* both factors are below 2^15: the product is below 2^30 and cannot overflow
small_factors(a, b) == a < 32768 /\ b < 32768

\* u32 `*` overflows: the product has a non-zero byte above the low four
mul_overflows(a, b) ==
    /\ ~small_factors(a, b)
    /\ \E k \in 5 .. 8 : wide_mul(a, b)[k] # 0

\* u32 `*` without overflow checks: the low four bytes of the product
wrapping_mul(a, b) ==
    IF small_factors(a, b) THEN a * b
    ELSE from_ne_bytes(SubSeq(wide_mul(a, b), 1, 4))

\* the multiplication is checked when the crate is built with overflow checks
\* (on with debug assertions), where it panics instead of wrapping
scattering_extent(p) ==
    [width |-> wrapping_mul(p.sizes.scattering_nu_size, p.sizes.scattering_mu_s_size),
     height |-> p.sizes.scattering_mu_size,
     depth |-> p.sizes.scattering_r_size]

\* mutation: the scattering-sized images are created with the transposed extent
image_extent_mutant(img, p) ==
    CASE img = "transmittance" ->
            [width |-> transmittance_extent(p).width,
             height |-> transmittance_extent(p).height, depth |-> 1]
      [] img \in {"delta_irradiance", "irradiance"} ->
            [width |-> irradiance_extent(p).width,
             height |-> irradiance_extent(p).height, depth |-> 1]
      [] OTHER ->
            [width |-> scattering_extent(p).height,
             height |-> scattering_extent(p).width,
             depth |-> scattering_extent(p).depth]

\* ImageCreateInfo::extent of each image build allocates
image_extent(img, p) ==
    CASE img = "transmittance" ->
            [width |-> transmittance_extent(p).width,
             height |-> transmittance_extent(p).height, depth |-> 1]
      [] img \in {"delta_irradiance", "irradiance"} ->
            [width |-> irradiance_extent(p).width,
             height |-> irradiance_extent(p).height, depth |-> 1]
      [] OTHER -> scattering_extent(p)

\* Atmosphere::transmittance_extent, irradiance_extent and scattering_extent of
\* an Atmosphere built from p: the fields build stored
Atmosphere_extent(img, p) ==
    CASE img = "transmittance" -> transmittance_extent(p)
      [] img = "irradiance" -> irradiance_extent(p)
      [] img = "scattering" -> scattering_extent(p)

(***************************************************************************)
(* The packed parameter block (#[repr(C)] struct ParamsRaw)                *)
(***************************************************************************)
\* f32 and u32: four bytes, aligned to four
scalar == [size |-> 4, align |-> 4, fields |-> << >>, offsets |-> << >>]

\* [T; n]
array(t, n) ==
    [size |-> t.size * n, align |-> t.align,
     fields |-> [i \in 1 .. n |-> << i - 1, t >>],
     offsets |-> [i \in 1 .. n |-> (i - 1) * t.size]]

round_up(n, a) == ((n + a - 1) \div a) * a

\* a #[repr(C)] struct with #[repr(align(min_align))]: each field at the next
\* offset aligned for its type, in declaration order; the struct aligned to its
\* most aligned field and its size rounded up to its alignment
repr_C(fields, min_align) ==
    LET n == Len(fields)
        offset[i \in 1 .. n] ==
            IF i = 1 THEN 0
            ELSE round_up(offset[i - 1] + fields[i - 1][2].size, fields[i][2].align)
        max[i \in 0 .. n] ==
            IF i = 0 THEN min_align
            ELSE IF fields[i][2].align > max[i - 1] THEN fields[i][2].align
                 ELSE max[i - 1]
    IN  [size |-> round_up(offset[n] + fields[n][2].size, max[n]),
         align |-> max[n],
         fields |-> fields,
         offsets |-> [i \in 1 .. n |-> offset[i]]]

\* mutation: the layer struct without #[repr(align(16))]
DensityProfileLayerRaw_mutant ==
    repr_C(<< <<"width", scalar>>, <<"exp_term", scalar>>, <<"exp_scale", scalar>>,
              <<"linear_term", scalar>>, <<"constant_term", scalar>> >>, 1)

DensityProfileLayerRaw ==
    repr_C(<< <<"width", scalar>>, <<"exp_term", scalar>>, <<"exp_scale", scalar>>,
              <<"linear_term", scalar>>, <<"constant_term", scalar>> >>, 16)

DensityProfileRaw == repr_C(<< <<"layers", array(DensityProfileLayerRaw, 2)>> >>, 1)

ParamsRaw ==
    repr_C(<< <<"solar_irradiance", array(scalar, 3)>>,
              <<"sun_angular_radius", scalar>>,
              <<"rayleigh_scattering", array(scalar, 3)>>,
              <<"bottom_radius", scalar>>,
              <<"mie_scattering", array(scalar, 3)>>,
              <<"top_radius", scalar>>,
              <<"mie_extinction", array(scalar, 3)>>,
              <<"mie_phase_function_g", scalar>>,
              <<"ground_albedo", array(scalar, 3)>>,
              <<"mu_s_min", scalar>>,
              <<"absorbtion_extinction", array(scalar, 3)>>,
              <<"transmittance_mu_size", scalar>>,
              <<"transmittance_r_size", scalar>>,
              <<"scattering_r_size", scalar>>,
              <<"scattering_mu_size", scalar>>,
              <<"scattering_mu_s_size", scalar>>,
              <<"scattering_nu_size", scalar>>,
              <<"irradiance_mu_s_size", scalar>>,
              <<"irradiance_r_size", scalar>>,
              <<"rayleigh_density", DensityProfileRaw>>,
              <<"mie_density", DensityProfileRaw>>,
              <<"absorbtion_density", DensityProfileRaw>> >>, 1)

(***************************************************************************)
(* Descriptor sets written by build (update_descriptor_sets)               *)
(***************************************************************************)
Sampled(img) ==
    [type |-> "COMBINED_IMAGE_SAMPLER", resource |-> img,
     layout |-> "SHADER_READ_ONLY_OPTIMAL"]

Storage(img) ==
    [type |-> "STORAGE_IMAGE", resource |-> img, layout |-> "GENERAL"]

Uniform(buf) ==
    [type |-> "UNIFORM_BUFFER", resource |-> buf, layout |-> "UNDEFINED"]

\* bindings of each descriptor set, in binding order (binding 0 first)
params_ds_writes == << Uniform("params") >>

transmittance_ds_writes == << Storage("transmittance") >>

\* mutation: the direct-irradiance pass bound to the irradiance accumulator
direct_irradiance_ds_writes_mutant ==
    << Sampled("transmittance"), Storage("irradiance") >>

direct_irradiance_ds_writes ==
    << Sampled("transmittance"), Storage("delta_irradiance") >>

\* mutation: the single-scattering pass bound to the transmittance table as a
\* storage image
single_scattering_ds_writes_mutant ==
    << Storage("transmittance"), Storage("delta_rayleigh"), Storage("delta_mie"),
       Storage("scattering") >>

single_scattering_ds_writes ==
    << Sampled("transmittance"), Storage("delta_rayleigh"), Storage("delta_mie"),
       Storage("scattering") >>

\* mutation: the density pass samples the irradiance accumulator in place of
\* delta_irradiance
scattering_density_ds_writes_mutant ==
    << Sampled("transmittance"), Sampled("delta_rayleigh"), Sampled("delta_mie"),
       Sampled("delta_multiple_scattering"), Sampled("irradiance"),
       Storage("scattering_density") >>
scattering_density_ds_writes ==
    << Sampled("transmittance"), Sampled("delta_rayleigh"), Sampled("delta_mie"),
       Sampled("delta_multiple_scattering"), Sampled("delta_irradiance"),
       Storage("scattering_density") >>

indirect_irradiance_ds_writes ==
    << Sampled("delta_rayleigh"), Sampled("delta_mie"),
       Sampled("delta_multiple_scattering"), Storage("delta_irradiance"),
       Storage("irradiance") >>

\* mutation: the multiple-scattering pass writes delta_rayleigh
multiple_scattering_ds_writes_mutant ==
    << Sampled("transmittance"), Sampled("scattering_density"),
       Storage("delta_rayleigh"), Storage("scattering") >>

multiple_scattering_ds_writes ==
    << Sampled("transmittance"), Sampled("scattering_density"),
       Storage("delta_multiple_scattering"), Storage("scattering") >>

\* mutation: the renderer's set binds the scattering table as a storage image
render_ds_writes_mutant ==
    << Uniform("params"), Sampled("transmittance"), Storage("scattering") >>

render_ds_writes ==
    << Uniform("params"), Sampled("transmittance"), Sampled("scattering") >>

\* Renderer::frames: the per-frame descriptor sets (binding 0: the depth buffer,
\* written by Renderer::set_depth_buffer), indexed by the frame index plus one
Frames == << "frame_ds_0", "frame_ds_1" >>

DescriptorWrites(ds) ==
    CASE ds = "params_ds" -> params_ds_writes
      [] ds = "transmittance_ds" -> transmittance_ds_writes
      [] ds = "direct_irradiance_ds" -> direct_irradiance_ds_writes
      [] ds = "single_scattering_ds" -> single_scattering_ds_writes
      [] ds = "scattering_density_ds" -> scattering_density_ds_writes
      [] ds = "indirect_irradiance_ds" -> indirect_irradiance_ds_writes
      [] ds = "multiple_scattering_ds" -> multiple_scattering_ds_writes
      [] ds = "render_ds" -> render_ds_writes
      [] ds \in { Frames[k] : k \in 1 .. Len(Frames) } ->
            << [type |-> "INPUT_ATTACHMENT", resource |-> "depth_buffer",
                layout |-> "caller"] >>
      [] OTHER -> << >>

\* mutation: the renderer's set is allocated from the transient pool
PoolOf_mutant(ds) ==
    CASE ds \in { Frames[k] : k \in 1 .. Len(Frames) } -> "frame_pool"
      [] OTHER -> "descriptor_pool"

\* the pool each descriptor set was allocated from
PoolOf(ds) ==
    CASE ds = "render_ds" -> "persistent_pool"
      [] ds \in { Frames[k] : k \in 1 .. Len(Frames) } -> "frame_pool"
      [] OTHER -> "descriptor_pool"

\* descriptor type of each binding of the descriptor-set layout each set is
\* allocated with (Builder::new), binding 0 first
ds_layout(ds) ==
    CASE ds = "params_ds" -> << "UNIFORM_BUFFER" >>
      [] ds = "transmittance_ds" -> << "STORAGE_IMAGE" >>
      [] ds = "direct_irradiance_ds" ->
            << "COMBINED_IMAGE_SAMPLER", "STORAGE_IMAGE" >>
      [] ds = "indirect_irradiance_ds" ->
            << "COMBINED_IMAGE_SAMPLER", "COMBINED_IMAGE_SAMPLER",
               "COMBINED_IMAGE_SAMPLER", "STORAGE_IMAGE", "STORAGE_IMAGE" >>
      [] ds = "single_scattering_ds" ->
            << "COMBINED_IMAGE_SAMPLER", "STORAGE_IMAGE", "STORAGE_IMAGE",
               "STORAGE_IMAGE" >>
      [] ds = "scattering_density_ds" ->
            << "COMBINED_IMAGE_SAMPLER", "COMBINED_IMAGE_SAMPLER",
               "COMBINED_IMAGE_SAMPLER", "COMBINED_IMAGE_SAMPLER",
               "COMBINED_IMAGE_SAMPLER", "STORAGE_IMAGE" >>
      [] ds = "multiple_scattering_ds" ->
            << "COMBINED_IMAGE_SAMPLER", "COMBINED_IMAGE_SAMPLER",
               "STORAGE_IMAGE", "STORAGE_IMAGE" >>
      [] ds = "render_ds" ->
            << "UNIFORM_BUFFER", "COMBINED_IMAGE_SAMPLER", "COMBINED_IMAGE_SAMPLER" >>
      [] OTHER -> << "INPUT_ATTACHMENT" >>

\* the sets build allocates from each pool, in the order of the set_layouts of
\* the allocate_descriptor_sets call
AllocatedSets(pool) ==
    CASE pool = "descriptor_pool" ->
            << "params_ds", "transmittance_ds", "direct_irradiance_ds",
               "indirect_irradiance_ds", "single_scattering_ds",
               "scattering_density_ds", "multiple_scattering_ds" >>
      [] pool = "persistent_pool" -> << "render_ds" >>

\* mutation: the transient pool has room for one combined image sampler less
DescriptorPoolCreateInfo_mutant(pool) ==
    CASE pool = "descriptor_pool" ->
            [max_sets |-> 7,
             pool_sizes |-> [UNIFORM_BUFFER |-> 1, COMBINED_IMAGE_SAMPLER |-> 11,
                             STORAGE_IMAGE |-> 10]]
      [] pool = "persistent_pool" ->
            [max_sets |-> 1,
             pool_sizes |-> [UNIFORM_BUFFER |-> 1, COMBINED_IMAGE_SAMPLER |-> 2,
                             STORAGE_IMAGE |-> 0]]

\* the create info of the two descriptor pools of build
DescriptorPoolCreateInfo(pool) ==
    CASE pool = "descriptor_pool" ->
            [max_sets |-> 7,
             pool_sizes |-> [UNIFORM_BUFFER |-> 1, COMBINED_IMAGE_SAMPLER |-> 12,
                             STORAGE_IMAGE |-> 10]]
      [] pool = "persistent_pool" ->
            [max_sets |-> 1,
             pool_sizes |-> [UNIFORM_BUFFER |-> 1, COMBINED_IMAGE_SAMPLER |-> 2,
                             STORAGE_IMAGE |-> 0]]

(***************************************************************************)
(* Barrier templates of build                                              *)
(***************************************************************************)
\* vk::ImageMemoryBarrier::default()
DefaultImageMemoryBarrier ==
    [image |-> "null", src_access_mask |-> {}, dst_access_mask |-> {},
     old_layout |-> "UNDEFINED", new_layout |-> "UNDEFINED",
     src_queue_family_index |-> 0, dst_queue_family_index |-> 0]

\* vk::BufferMemoryBarrier::default()
DefaultBufferMemoryBarrier ==
    [buffer |-> "null", src_access_mask |-> {}, dst_access_mask |-> {},
     src_queue_family_index |-> 0, dst_queue_family_index |-> 0]

init_barrier ==
    [DefaultImageMemoryBarrier EXCEPT
        !.dst_access_mask = {"SHADER_WRITE"},
        !.old_layout = "UNDEFINED",
        !.new_layout = "GENERAL",
        !.src_queue_family_index = QUEUE_FAMILY_IGNORED,
        !.dst_queue_family_index = QUEUE_FAMILY_IGNORED]

write_read_barrier ==
    [DefaultImageMemoryBarrier EXCEPT
        !.src_access_mask = {"SHADER_WRITE"},
        !.dst_access_mask = {"SHADER_READ"},
        !.old_layout = "GENERAL",
        !.new_layout = "SHADER_READ_ONLY_OPTIMAL",
        !.src_queue_family_index = QUEUE_FAMILY_IGNORED,
        !.dst_queue_family_index = QUEUE_FAMILY_IGNORED]

read_write_barrier ==
    [DefaultImageMemoryBarrier EXCEPT
        !.src_access_mask = {"SHADER_READ"},
        !.dst_access_mask = {"SHADER_WRITE"},
        !.old_layout = "SHADER_READ_ONLY_OPTIMAL",
        !.new_layout = "GENERAL",
        !.src_queue_family_index = QUEUE_FAMILY_IGNORED,
        !.dst_queue_family_index = QUEUE_FAMILY_IGNORED]

write_barrier ==
    [DefaultImageMemoryBarrier EXCEPT
        !.src_access_mask = {"SHADER_WRITE"},
        !.dst_access_mask = {"SHADER_READ", "SHADER_WRITE"},
        !.old_layout = "GENERAL",
        !.new_layout = "GENERAL",
        !.src_queue_family_index = QUEUE_FAMILY_IGNORED,
        !.dst_queue_family_index = QUEUE_FAMILY_IGNORED]

(***************************************************************************)
(* Recorded commands                                                       *)
(***************************************************************************)
cmd_update_buffer(buffer, offset, size) ==
    [op |-> "update_buffer", buffer |-> buffer, offset |-> offset, size |-> size]

cmd_pipeline_barrier(src_stage, dst_stage, buffer_barriers, image_barriers) ==
    [op |-> "pipeline_barrier", src_stage_mask |-> src_stage,
     dst_stage_mask |-> dst_stage, buffer_barriers |-> buffer_barriers,
     image_barriers |-> image_barriers]

cmd_bind_pipeline(bind_point, pipeline) ==
    [op |-> "bind_pipeline", bind_point |-> bind_point, pipeline |-> pipeline]

cmd_bind_descriptor_sets(bind_point, layout, first_set, sets) ==
    [op |-> "bind_descriptor_sets", bind_point |-> bind_point, layout |-> layout,
     first_set |-> first_set, sets |-> sets]

cmd_push_constants(layout, stage, offset, bytes) ==
    [op |-> "push_constants", layout |-> layout, stage |-> stage,
     offset |-> offset, bytes |-> bytes]

cmd_dispatch(x, y, z) == [op |-> "dispatch", x |-> x, y |-> y, z |-> z]

cmd_clear_color_image(image, layout, color) ==
    [op |-> "clear_color_image", image |-> image, layout |-> layout, color |-> color]

cmd_draw(vertices, instances) ==
    [op |-> "draw", vertices |-> vertices, instances |-> instances]


(***************************************************************************)
(* State                                                                   *)
(***************************************************************************)
(***************************************************************************)
(* find_memory_type and allocate                                           *)
(***************************************************************************)
\* number of memory types of the modelled devices (VK_MAX_MEMORY_TYPES is 32)
MaxMemoryTypes == 3

\* vk::MemoryPropertyFlags
MemoryPropertyFlags == {"DEVICE_LOCAL", "HOST_VISIBLE"}

\* vk::PhysicalDeviceMemoryProperties: memory_types is an array of fixed length
\* of which the first memory_type_count entries describe memory types
PhysicalDeviceMemoryProperties ==
    [memory_type_count : 0 .. MaxMemoryTypes,
     memory_types : [0 .. MaxMemoryTypes - 1 -> SUBSET MemoryPropertyFlags]]

\* `type_bits & (1 << i) != 0`
bit_set(type_bits, i) == (type_bits \div (2 ^ i)) % 2 # 0

\* `property_flags.contains(flags)`; mutation: `intersects`
contains_mutant(property_flags, flags) == property_flags \cap flags # {}

contains(property_flags, flags) == flags \subseteq property_flags

RECURSIVE find_memory_type_from(_, _, _, _)
\* the iterations of `for i in 0..device_props.memory_type_count` from i on
find_memory_type_from(device_props, type_bits, flags, i) ==
    IF i >= device_props.memory_type_count THEN None
    ELSE IF /\ bit_set(type_bits, i)
            /\ contains(device_props.memory_types[i], flags)
         THEN Some(i)
         ELSE find_memory_type_from(device_props, type_bits, flags, i + 1)

find_memory_type(device_props, type_bits, flags) ==
    find_memory_type_from(device_props, type_bits, flags, 0)

\* no call of allocate is modelled
NoCall ==
    [device_props |-> [memory_type_count |-> 0,
                       memory_types |-> [i \in 0 .. MaxMemoryTypes - 1 |-> {}]],
     reqs |-> [size |-> 0, memory_type_bits |-> 0],
     flags |-> {}, pc |-> "idle", result |-> None, allocated |-> << >>]

\* the calls of allocate: any device, any requirements, any requested flags
AllocateCalls ==
    [device_props : PhysicalDeviceMemoryProperties,
     reqs : [size : {16}, memory_type_bits : 0 .. 2 ^ MaxMemoryTypes - 1],
     flags : SUBSET MemoryPropertyFlags,
     pc : {"called"}, result : {None}, allocated : {<< >>}]

VARIABLES
    builder,            \* Builder: gfx_queue_family, compute_queue_family
    atmosphere_params,  \* the Parameters build is called with
    pc,                 \* position of build in its body
    order,              \* loop variable of `for order in 2..=atmosphere_params.order`
    cmd,                \* commands recorded into the command buffer passed to build
    created,            \* GPU objects build has created
    destroyed,          \* per GPU object, the Drop impls that destroyed it, in order
    pending,            \* PendingAtmosphere: "none", "live", "dropped", "ready"
    inner,              \* PendingAtmosphere.inner: "Some" or "None"
    atmosphere,         \* Atmosphere: "none", "embedded", "owned", "dropped"
    cmd_state,          \* execution of cmd: "recording", "executing", "complete"
    gfx_cmd,            \* commands recorded into the caller's drawing command buffer
    gfx_state,          \* execution of gfx_cmd: "recording", "executing", "complete"
    misuse,             \* the caller broke a documented precondition of a drop
    arc,                \* Arc<Builder>: strong count, and the runs of Drop for Builder
    held,               \* number of Arc<Builder> handles the caller holds
    next_handle,        \* the device's next unused object handle
    handles,            \* handle of each object the build has created
    other,              \* a second Atmosphere::build call on the same Builder
    panic,              \* "none", or the operation whose panic ended the program
    debug_assertions,   \* the crate is compiled with debug assertions
    alloc_call          \* a call of allocate: its arguments, position and effects

vars ==
    << builder, atmosphere_params, pc, order, cmd, created, destroyed, pending,
       inner, atmosphere, cmd_state, gfx_cmd, gfx_state, misuse,
       arc, held, next_handle, handles, other, panic, debug_assertions, alloc_call >>

share_vars == << arc, held, next_handle, handles, other >>

build_vars == << builder, atmosphere_params, pc, order, cmd, created >>

life_vars ==
    << destroyed, pending, inner, atmosphere, cmd_state, gfx_cmd, gfx_state, misuse >>

(***************************************************************************)
(* Command blocks of Atmosphere::build                                     *)
(***************************************************************************)
WithImage(template, img) == [template EXCEPT !.image = img]

\* mutation: every image, scattering_density and irradiance too, goes to GENERAL
initial_image_barriers_mutant ==
    << WithImage(init_barrier, "transmittance"),
       WithImage(init_barrier, "delta_rayleigh"),
       WithImage(init_barrier, "delta_mie"),
       WithImage(init_barrier, "scattering"),
       WithImage(init_barrier, "irradiance"),
       WithImage(init_barrier, "delta_irradiance"),
       WithImage(init_barrier, "delta_multiple_scattering"),
       WithImage(init_barrier, "scattering_density") >>

\* image barriers of the first pipeline barrier (initial layouts)
initial_image_barriers ==
    << WithImage(init_barrier, "transmittance"),
       WithImage(init_barrier, "delta_rayleigh"),
       WithImage(init_barrier, "delta_mie"),
       WithImage(init_barrier, "scattering"),
       [WithImage(init_barrier, "irradiance") EXCEPT
            !.new_layout = "TRANSFER_DST_OPTIMAL"],
       WithImage(init_barrier, "delta_irradiance"),
       WithImage(init_barrier, "delta_multiple_scattering") >>

\* mutation: the first pipeline barrier carries no buffer barrier
UploadCommands_mutant ==
    << cmd_update_buffer("params", 0, 320),
       cmd_pipeline_barrier({"TRANSFER"}, {"COMPUTE_SHADER"}, << >>,
            initial_image_barriers) >>

\* cmd_update_buffer of the parameter block and the first pipeline barrier
UploadCommands ==
    << cmd_update_buffer("params", 0, 320),
       cmd_pipeline_barrier({"TRANSFER"}, {"COMPUTE_SHADER"},
            << [DefaultBufferMemoryBarrier EXCEPT
                    !.src_access_mask = {"TRANSFER_WRITE"},
                    !.dst_access_mask = {"UNIFORM_READ"},
                    !.src_queue_family_index = QUEUE_FAMILY_IGNORED,
                    !.dst_queue_family_index = QUEUE_FAMILY_IGNORED,
                    !.buffer = "params"] >>,
            initial_image_barriers) >>

TransmittanceCommands(p) ==
    << cmd_bind_pipeline("COMPUTE", "transmittance"),
       cmd_bind_descriptor_sets("COMPUTE", "transmittance", 0,
            << "params_ds", "transmittance_ds" >>),
       cmd_dispatch(transmittance_extent(p).width, transmittance_extent(p).height, 1),
       cmd_pipeline_barrier({"COMPUTE_SHADER"}, {"COMPUTE_SHADER"}, << >>,
            << WithImage(write_read_barrier, "transmittance") >>) >>

\* mutation: the direct-irradiance set bound as set 0
DirectIrradianceCommands_mutant(p) ==
    << cmd_bind_pipeline("COMPUTE", "direct_irradiance"),
       cmd_bind_descriptor_sets("COMPUTE", "direct_irradiance", 0,
            << "direct_irradiance_ds" >>),
       cmd_dispatch(irradiance_extent(p).width, irradiance_extent(p).height, 1) >>

DirectIrradianceCommands(p) ==
    << cmd_bind_pipeline("COMPUTE", "direct_irradiance"),
       cmd_bind_descriptor_sets("COMPUTE", "direct_irradiance", 1,
            << "direct_irradiance_ds" >>),
       cmd_dispatch(irradiance_extent(p).width, irradiance_extent(p).height, 1) >>

SingleScatteringCommands(p) ==
    << cmd_bind_pipeline("COMPUTE", "single_scattering"),
       cmd_bind_descriptor_sets("COMPUTE", "single_scattering", 1,
            << "single_scattering_ds" >>),
       cmd_dispatch(scattering_extent(p).width, scattering_extent(p).height,
                    scattering_extent(p).depth) >>

\* mutation: the barrier after the clear waits for shader writes only
clear_image_barriers_mutant ==
    << [WithImage(write_barrier, "irradiance") EXCEPT
            !.old_layout = "TRANSFER_DST_OPTIMAL"] >>

\* barrier after the clear of the irradiance table
clear_image_barriers ==
    << [WithImage(write_barrier, "irradiance") EXCEPT
            !.src_access_mask = {"TRANSFER_WRITE"},
            !.old_layout = "TRANSFER_DST_OPTIMAL"] >>

\* mutation: delta_mie left in GENERAL after single scattering
single_scattering_image_barriers_mutant ==
    << WithImage(write_read_barrier, "delta_rayleigh") >>

\* barrier that makes the single-scattering deltas readable
single_scattering_image_barriers ==
    << WithImage(write_read_barrier, "delta_rayleigh"),
       WithImage(write_read_barrier, "delta_mie") >>

\* mutation: the barrier after the clear waits for compute work only
ClearCommands_mutant ==
    << cmd_clear_color_image("irradiance", "TRANSFER_DST_OPTIMAL", << 0, 0, 0, 0 >>),
       cmd_pipeline_barrier({"COMPUTE_SHADER"}, {"COMPUTE_SHADER"}, << >>,
            clear_image_barriers),
       cmd_pipeline_barrier({"COMPUTE_SHADER"}, {"COMPUTE_SHADER"}, << >>,
            single_scattering_image_barriers) >>

ClearCommands ==
    << cmd_clear_color_image("irradiance", "TRANSFER_DST_OPTIMAL", << 0, 0, 0, 0 >>),
       cmd_pipeline_barrier({"TRANSFER"}, {"COMPUTE_SHADER"}, << >>,
            clear_image_barriers),
       cmd_pipeline_barrier({"COMPUTE_SHADER"}, {"COMPUTE_SHADER"}, << >>,
            single_scattering_image_barriers) >>

\* mutation: delta_multiple_scattering left out of the loop-top barrier
scattering_density_image_barriers_mutant ==
    << [WithImage(init_barrier, "scattering_density") EXCEPT
            !.src_access_mask = {"SHADER_READ"}],
       WithImage(write_read_barrier, "delta_irradiance") >>

\* barrier at the top of each loop iteration
scattering_density_image_barriers ==
    << [WithImage(init_barrier, "scattering_density") EXCEPT
            !.src_access_mask = {"SHADER_READ"}],
       WithImage(write_read_barrier, "delta_irradiance"),
       WithImage(write_read_barrier, "delta_multiple_scattering") >>

\* inline constant of the scattering-density pass
scattering_density_constant(o) == o

ScatteringDensityCommands(p, o) ==
    << cmd_pipeline_barrier({"COMPUTE_SHADER"}, {"COMPUTE_SHADER"}, << >>,
            scattering_density_image_barriers),
       cmd_bind_pipeline("COMPUTE", "scattering_density"),
       cmd_bind_descriptor_sets("COMPUTE", "scattering_density", 0,
            << "params_ds", "scattering_density_ds" >>),
       cmd_push_constants("scattering_density", "COMPUTE", 0,
            to_ne_bytes(scattering_density_constant(o))),
       cmd_dispatch(scattering_extent(p).width, scattering_extent(p).height,
                    scattering_extent(p).depth) >>

\* mutation: delta_irradiance not made writable again before it is rewritten
indirect_irradiance_image_barriers_mutant ==
    << WithImage(write_barrier, "irradiance") >>

\* barrier between the scattering-density and indirect-irradiance passes
indirect_irradiance_image_barriers ==
    << WithImage(read_write_barrier, "delta_irradiance"),
       WithImage(write_barrier, "irradiance") >>

\* mutation: the indirect-irradiance pass given the same constant as the density pass
indirect_irradiance_constant_mutant(o) == o

\* inline constant of the indirect-irradiance pass (o >= 2 inside the loop)
indirect_irradiance_constant(o) == o - 1

IndirectIrradianceCommands(p, o) ==
    << cmd_pipeline_barrier({"COMPUTE_SHADER"}, {"COMPUTE_SHADER"}, << >>,
            indirect_irradiance_image_barriers),
       cmd_bind_pipeline("COMPUTE", "indirect_irradiance"),
       cmd_bind_descriptor_sets("COMPUTE", "indirect_irradiance", 0,
            << "params_ds", "indirect_irradiance_ds" >>),
       cmd_push_constants("indirect_irradiance", "COMPUTE", 0,
            to_ne_bytes(indirect_irradiance_constant(o))),
       cmd_dispatch(irradiance_extent(p).width, irradiance_extent(p).height, 1) >>

\* mutation: scattering_density handed to the multiple-scattering pass with the
\* read-to-write template
multiple_scattering_image_barriers_mutant ==
    << WithImage(read_write_barrier, "scattering_density"),
       WithImage(write_barrier, "scattering"),
       [WithImage(init_barrier, "delta_multiple_scattering") EXCEPT
            !.src_access_mask = {"SHADER_READ"}] >>

\* barrier between the indirect-irradiance and multiple-scattering passes
multiple_scattering_image_barriers ==
    << WithImage(write_read_barrier, "scattering_density"),
       WithImage(write_barrier, "scattering"),
       [WithImage(init_barrier, "delta_multiple_scattering") EXCEPT
            !.src_access_mask = {"SHADER_READ"}] >>

MultipleScatteringCommands(p) ==
    << cmd_pipeline_barrier({"COMPUTE_SHADER"}, {"COMPUTE_SHADER"}, << >>,
            multiple_scattering_image_barriers),
       cmd_bind_pipeline("COMPUTE", "multiple_scattering"),
       cmd_bind_descriptor_sets("COMPUTE", "multiple_scattering", 0,
            << "params_ds", "multiple_scattering_ds" >>),
       cmd_dispatch(scattering_extent(p).width, scattering_extent(p).height,
                    scattering_extent(p).depth) >>

\* mutation: the compute queue family ignored
final_src_queue_family_mutant(b) == b.gfx_queue_family

\* let src_queue_family_index = compute_queue_family.unwrap_or(gfx_queue_family)
final_src_queue_family(b) == unwrap_or(b.compute_queue_family, b.gfx_queue_family)

\* mutation: the transmittance barrier keeps the template's old layout
final_image_barriers_mutant(b, p) ==
    << [WithImage(write_read_barrier, "scattering") EXCEPT
            !.dst_access_mask = p.dst_access_mask,
            !.new_layout = p.layout,
            !.src_queue_family_index = final_src_queue_family(b),
            !.dst_queue_family_index = b.gfx_queue_family],
       [WithImage(write_read_barrier, "irradiance") EXCEPT
            !.dst_access_mask = p.dst_access_mask,
            !.new_layout = p.layout,
            !.src_queue_family_index = final_src_queue_family(b),
            !.dst_queue_family_index = b.gfx_queue_family],
       [WithImage(write_read_barrier, "transmittance") EXCEPT
            !.src_access_mask = {},
            !.dst_access_mask = p.dst_access_mask,
            !.new_layout = p.layout,
            !.src_queue_family_index = final_src_queue_family(b),
            !.dst_queue_family_index = b.gfx_queue_family] >>

\* image barriers of the finalization barrier
final_image_barriers(b, p) ==
    << [WithImage(write_read_barrier, "scattering") EXCEPT
            !.dst_access_mask = p.dst_access_mask,
            !.new_layout = p.layout,
            !.src_queue_family_index = final_src_queue_family(b),
            !.dst_queue_family_index = b.gfx_queue_family],
       [WithImage(write_read_barrier, "irradiance") EXCEPT
            !.dst_access_mask = p.dst_access_mask,
            !.new_layout = p.layout,
            !.src_queue_family_index = final_src_queue_family(b),
            !.dst_queue_family_index = b.gfx_queue_family],
       [WithImage(write_read_barrier, "transmittance") EXCEPT
            !.src_access_mask = {},
            !.dst_access_mask = p.dst_access_mask,
            !.old_layout = "SHADER_READ_ONLY_OPTIMAL",
            !.new_layout = p.layout,
            !.src_queue_family_index = final_src_queue_family(b),
            !.dst_queue_family_index = b.gfx_queue_family] >>

FinalizeCommands(b, p) ==
    << cmd_pipeline_barrier({"COMPUTE_SHADER"}, p.dst_stage_mask,
            << [DefaultBufferMemoryBarrier EXCEPT
                    !.src_access_mask = {"UNIFORM_READ"},
                    !.src_queue_family_index = final_src_queue_family(b),
                    !.dst_queue_family_index = b.gfx_queue_family,
                    !.buffer = "params"] >>,
            final_image_barriers(b, p)) >>

\* mutation: exclusive range 2..order
LoopContinues_mutant(o, n) == o < n

\* `for order in 2..=atmosphere_params.order`: is o still in the range?
LoopContinues(o, n) == o <= n

\* mutation: a loop that tests its range after the first pass through the body
LoopNext_mutant(o, n) ==
    IF o = 2 \/ LoopContinues(o, n) THEN "scattering_density" ELSE "finalize"

LoopNext(o, n) == IF LoopContinues(o, n) THEN "scattering_density" ELSE "finalize"


(***************************************************************************)
(* Objects build creates, and the Arc<Builder> it is given                 *)
(***************************************************************************)
\* Builder::alloc_image creates the image, then its memory, then its view
alloc_image(img) == << <<img, "handle">>, <<img, "memory">>, <<img, "view">> >>

\* every object build creates through the device, in the order of creation
CreationOrder ==
    << <<"descriptor_pool", "pool">>,
       <<"params_ds", "set">>, <<"transmittance_ds", "set">>,
       <<"direct_irradiance_ds", "set">>, <<"indirect_irradiance_ds", "set">>,
       <<"single_scattering_ds", "set">>, <<"scattering_density_ds", "set">>,
       <<"multiple_scattering_ds", "set">>,
       <<"persistent_pool", "pool">>, <<"render_ds", "set">> >>
        \o alloc_image("transmittance") \o alloc_image("delta_irradiance")
        \o alloc_image("irradiance") \o alloc_image("delta_rayleigh")
        \o alloc_image("delta_mie") \o alloc_image("scattering")
        \o alloc_image("delta_multiple_scattering")
        \o alloc_image("scattering_density")
        \o << <<"params", "buffer">>, <<"params_mem", "memory">> >>

Objects == { CreationOrder[k] : k \in 1 .. Len(CreationOrder) }

\* mutation: the parameter buffer is not created by build but is one fixed buffer
create_objects_mutant(next) ==
    [o \in Objects |->
        IF o = <<"params", "buffer">> THEN 0
        ELSE next + (CHOOSE k \in 1 .. Len(CreationOrder) : CreationOrder[k] = o) - 1]

\* the handles the device returns for the objects of one build, each create or
\* allocate call returning a handle not returned before; `next` is the device's
\* next unused handle
create_objects(next) ==
    [o \in Objects |->
        next + (CHOOSE k \in 1 .. Len(CreationOrder) : CreationOrder[k] = o) - 1]

\* the objects of the two builds that exist: created and not destroyed
LiveObjects(cr, d, o) ==
    ({"build"} \X { r \in cr : d[r] = << >> })
        \cup ({"other"} \X { r \in o.created : o.destroyed[r] = << >> })

\* Arc::clone
Arc_clone(a) == [a EXCEPT !.strong = @ + 1]

\* drop of one Arc<Builder>: the strong count goes down by one, and at zero Drop
\* for Builder runs; that run is recorded with the objects that exist then
Arc_drop(a, live) ==
    [strong |-> a.strong - 1,
     drops |-> IF a.strong = 1 THEN Append(a.drops, live) ELSE a.drops]

\* mutation: the returned Atmosphere does not keep the Arc<Builder>, which is
\* dropped when build returns
returned_builder_mutant(a, live) == Arc_drop(a, live)

\* `builder` moves into the `builder` field of the returned Atmosphere
returned_builder(a, live) == a

(***************************************************************************)
(* Atmosphere::build, step by step                                         *)
(***************************************************************************)
\* descriptor pools, descriptor sets, images, parameter buffer, descriptor writes
\* the creation calls of build taken to fail: one of each kind (the seven
\* transient sets come from a single allocate_descriptor_sets call), by the
\* position in CreationOrder of the object the call was to create
FailurePoints ==
    { k \in 1 .. Len(CreationOrder) :
        CreationOrder[k] \in
            { <<"descriptor_pool", "pool">>, <<"params_ds", "set">>,
              <<"persistent_pool", "pool">>, <<"render_ds", "set">>,
              <<"transmittance", "handle">>, <<"transmittance", "memory">>,
              <<"transmittance", "view">>, <<"scattering_density", "view">>,
              <<"params", "buffer">>, <<"params_mem", "memory">> } }

\* the objects created before the k-th creation call of build
CreatedBefore(k) == { CreationOrder[j] : j \in 1 .. k - 1 }

\* atmosphere_params.scattering_extent() is evaluated after the irradiance images
\* are allocated, before the first scattering-sized image; with overflow checks
\* an overflowing product panics there.  The position in CreationOrder of the
\* first object build does not get to create because of it, if any.
OverflowPoint(p) ==
    IF debug_assertions /\ mul_overflows(p.sizes.scattering_nu_size,
                                         p.sizes.scattering_mu_s_size)
    THEN CHOOSE j \in 1 .. Len(CreationOrder) :
            CreationOrder[j] = <<"delta_rayleigh", "handle">>
    ELSE Len(CreationOrder) + 1

Allocate ==
    /\ panic = "none"
    /\ pc = "allocate"
    /\ LET k == OverflowPoint(atmosphere_params)
       IN  IF k <= Len(CreationOrder)
           THEN /\ created' = CreatedBefore(k) \cap Resources
                /\ handles' = [o \in CreatedBefore(k) |->
                                    create_objects(next_handle)[o]]
                /\ next_handle' = next_handle + (k - 1)
                /\ pc' = "panicked"
                /\ panic' = "build"
                /\ arc' = Arc_drop(arc, LiveObjects(created', destroyed, other))
           ELSE /\ created' = Resources
                /\ handles' = create_objects(next_handle)
                /\ next_handle' = next_handle + Len(CreationOrder)
                /\ pc' = "upload"
                /\ UNCHANGED << arc, panic >>
    /\ UNCHANGED << builder, atmosphere_params, order, cmd >>
    /\ UNCHANGED life_vars
    /\ UNCHANGED << held, other, debug_assertions, alloc_call >>

\* mutation: the error of the failed call is dropped and build goes on to return
\* a PendingAtmosphere made of the objects created so far
AllocatePanics_mutant(k) ==
    /\ panic = "none"
    /\ pc = "allocate"
    /\ created' = CreatedBefore(k) \cap Resources
    /\ handles' = [o \in CreatedBefore(k) |-> create_objects(next_handle)[o]]
    /\ next_handle' = next_handle + (k - 1)
    /\ pc' = "done"
    /\ pending' = "live"
    /\ inner' = "Some"
    /\ atmosphere' = "embedded"
    /\ UNCHANGED << builder, atmosphere_params, order, cmd >>
    /\ UNCHANGED << destroyed, cmd_state, gfx_cmd, gfx_state, misuse >>
    /\ UNCHANGED << arc, held, other, panic, debug_assertions, alloc_call >>

\* the k-th creation call of build returns an error: every create, allocate and
\* bind result is unwrapped, so build panics there; unwinding drops the
\* Arc<Builder> build was given, and nothing is returned
AllocatePanics(k) ==
    /\ panic = "none"
    /\ pc = "allocate"
    /\ k < OverflowPoint(atmosphere_params)
    /\ created' = CreatedBefore(k) \cap Resources
    /\ handles' = [o \in CreatedBefore(k) |-> create_objects(next_handle)[o]]
    /\ next_handle' = next_handle + (k - 1)
    /\ pc' = "panicked"
    /\ panic' = "build"
    /\ arc' = Arc_drop(arc, LiveObjects(created', destroyed, other))
    /\ UNCHANGED << builder, atmosphere_params, order, cmd >>
    /\ UNCHANGED life_vars
    /\ UNCHANGED << held, other, debug_assertions, alloc_call >>

\* mutation: the parameter buffer's memory is bound after the upload has been
\* recorded, and the bind fails
RecordUpload_mutant ==
    /\ panic = "none"
    /\ pc = "upload"
    /\ cmd' = cmd \o UploadCommands
    /\ \/ pc' = "transmittance" /\ UNCHANGED panic
       \/ pc' = "panicked" /\ panic' = "build"
    /\ UNCHANGED << builder, atmosphere_params, order, created >>
    /\ UNCHANGED life_vars
    /\ UNCHANGED share_vars
    /\ UNCHANGED << debug_assertions, alloc_call >>

RecordUpload ==
    /\ panic = "none"
    /\ pc = "upload"
    /\ cmd' = cmd \o UploadCommands
    /\ pc' = "transmittance"
    /\ UNCHANGED << builder, atmosphere_params, order, created >>
    /\ UNCHANGED life_vars
    /\ UNCHANGED share_vars
    /\ UNCHANGED << panic, debug_assertions, alloc_call >>

RecordTransmittance ==
    /\ panic = "none"
    /\ pc = "transmittance"
    /\ cmd' = cmd \o TransmittanceCommands(atmosphere_params)
    /\ pc' = "direct_irradiance"
    /\ UNCHANGED << builder, atmosphere_params, order, created >>
    /\ UNCHANGED life_vars
    /\ UNCHANGED share_vars
    /\ UNCHANGED << panic, debug_assertions, alloc_call >>

RecordDirectIrradiance ==
    /\ panic = "none"
    /\ pc = "direct_irradiance"
    /\ cmd' = cmd \o DirectIrradianceCommands(atmosphere_params)
    /\ pc' = "single_scattering"
    /\ UNCHANGED << builder, atmosphere_params, order, created >>
    /\ UNCHANGED life_vars
    /\ UNCHANGED share_vars
    /\ UNCHANGED << panic, debug_assertions, alloc_call >>

RecordSingleScattering ==
    /\ panic = "none"
    /\ pc = "single_scattering"
    /\ cmd' = cmd \o SingleScatteringCommands(atmosphere_params)
    /\ pc' = "clear"
    /\ UNCHANGED << builder, atmosphere_params, order, created >>
    /\ UNCHANGED life_vars
    /\ UNCHANGED share_vars
    /\ UNCHANGED << panic, debug_assertions, alloc_call >>

\* the clear, its barrier, the delta_rayleigh/delta_mie barrier and the loop entry
RecordClear ==
    /\ panic = "none"
    /\ pc = "clear"
    /\ cmd' = cmd \o ClearCommands
    /\ order' = 2
    /\ pc' = LoopNext(2, atmosphere_params.order)
    /\ UNCHANGED << builder, atmosphere_params, created >>
    /\ UNCHANGED life_vars
    /\ UNCHANGED share_vars
    /\ UNCHANGED << panic, debug_assertions, alloc_call >>

RecordScatteringDensity ==
    /\ panic = "none"
    /\ pc = "scattering_density"
    /\ cmd' = cmd \o ScatteringDensityCommands(atmosphere_params, order)
    /\ pc' = "indirect_irradiance"
    /\ UNCHANGED << builder, atmosphere_params, order, created >>
    /\ UNCHANGED life_vars
    /\ UNCHANGED share_vars
    /\ UNCHANGED << panic, debug_assertions, alloc_call >>

RecordIndirectIrradiance ==
    /\ panic = "none"
    /\ pc = "indirect_irradiance"
    /\ cmd' = cmd \o IndirectIrradianceCommands(atmosphere_params, order)
    /\ pc' = "multiple_scattering"
    /\ UNCHANGED << builder, atmosphere_params, order, created >>
    /\ UNCHANGED life_vars
    /\ UNCHANGED share_vars
    /\ UNCHANGED << panic, debug_assertions, alloc_call >>

\* the last pass of an iteration and the step of the loop
RecordMultipleScattering ==
    /\ panic = "none"
    /\ pc = "multiple_scattering"
    /\ cmd' = cmd \o MultipleScatteringCommands(atmosphere_params)
    /\ order' = order + 1
    /\ pc' = LoopNext(order + 1, atmosphere_params.order)
    /\ UNCHANGED << builder, atmosphere_params, created >>
    /\ UNCHANGED life_vars
    /\ UNCHANGED share_vars
    /\ UNCHANGED << panic, debug_assertions, alloc_call >>

\* the finalization barrier and the PendingAtmosphere build returns
RecordFinalize ==
    /\ panic = "none"
    /\ pc = "finalize"
    /\ cmd' = cmd \o FinalizeCommands(builder, atmosphere_params)
    /\ pc' = "done"
    /\ pending' = "live"
    /\ inner' = "Some"
    /\ atmosphere' = "embedded"
    /\ arc' = returned_builder(arc, LiveObjects(created, destroyed, other))
    /\ UNCHANGED << builder, atmosphere_params, order, created >>
    /\ UNCHANGED << destroyed, cmd_state, gfx_cmd, gfx_state, misuse >>
    /\ UNCHANGED << held, next_handle, handles, other >>
    /\ UNCHANGED << panic, debug_assertions, alloc_call >>

Build ==
    \/ Allocate
    \/ \E k \in FailurePoints : AllocatePanics(k)
    \/ RecordUpload
    \/ RecordTransmittance
    \/ RecordDirectIrradiance
    \/ RecordSingleScattering
    \/ RecordClear
    \/ RecordScatteringDensity
    \/ RecordIndirectIrradiance
    \/ RecordMultipleScattering
    \/ RecordFinalize

\* the second build before it is called
OtherIdle ==
    [pc |-> "idle",
     atmosphere_params |->
        [order |-> 0, layout |-> "SHADER_READ_ONLY_OPTIMAL",
         dst_access_mask |-> {"SHADER_READ"},
         dst_stage_mask |-> {"FRAGMENT_SHADER"},
         sizes |-> CHOOSE z \in SizeChoices : z.transmittance_mu_size = 256],
     order |-> 0, cmd |-> << >>, created |-> {}, handles |-> << >>,
     destroyed |-> [r \in Resources |-> << >>],
     pending |-> "none", inner |-> "None", atmosphere |-> "none"]

\* the state in which Atmosphere::build is called, apart from alloc_call
Constructed(size_choices) ==
    /\ builder \in [gfx_queue_family : GfxFamilies,
                    compute_queue_family : ComputeFamilies]
    /\ atmosphere_params \in [order : 0 .. MaxOrder, layout : LayoutChoices,
                              dst_access_mask : AccessChoices,
                              dst_stage_mask : StageChoices, sizes : size_choices]
    /\ pc = "allocate"
    /\ order = 0
    /\ cmd = << >>
    /\ created = {}
    /\ destroyed = [r \in Resources |-> << >>]
    /\ pending = "none"
    /\ inner = "None"
    /\ atmosphere = "none"
    /\ cmd_state = "recording"
    /\ gfx_cmd = << >>
    /\ gfx_state = "recording"
    /\ misuse = FALSE
    /\ held \in 0 .. MaxHandles
    /\ arc = [strong |-> held + 1, drops |-> << >>]
    /\ next_handle = 1
    /\ handles = << >>
    /\ other = OtherIdle
    /\ panic = "none"
    /\ debug_assertions \in BOOLEAN

InitWith(size_choices) == Constructed(size_choices) /\ alloc_call = NoCall

Init == InitWith(SizeChoices)

\* Atmosphere::build alone
BuildSpec == Init /\ [][Build]_vars


(***************************************************************************)
(* What a recorded command sequence means                                  *)
(***************************************************************************)
BindPoints == {"COMPUTE", "GRAPHICS"}

\* binding state of a fresh command buffer
InitialBindState ==
    [pipeline |-> [bp \in BindPoints |-> "null"],
     sets |-> [bp \in BindPoints |-> << "null", "null" >>],
     push |-> << >>,
     push_layout |-> "null"]

\* binding state after command c
BindStep(st, c) ==
    CASE c.op = "bind_pipeline" ->
            [st EXCEPT !.pipeline[c.bind_point] = c.pipeline]
      [] c.op = "bind_descriptor_sets" ->
            [st EXCEPT !.sets[c.bind_point] =
                [n \in 1 .. 2 |->
                    IF n - 1 >= c.first_set /\ n - 1 < c.first_set + Len(c.sets)
                    THEN c.sets[n - c.first_set]
                    ELSE st.sets[c.bind_point][n]]]
      [] c.op = "push_constants" ->
            [st EXCEPT !.push = c.bytes, !.push_layout = c.layout]
      [] OTHER -> st

RECURSIVE BindStatesFrom(_, _, _)
BindStatesFrom(cs, i, st) ==
    IF i > Len(cs) THEN << >>
    ELSE << st >> \o BindStatesFrom(cs, i + 1, BindStep(st, cs[i]))

\* for each command, the binding state it executes with
BindStates(cs) == BindStatesFrom(cs, 1, InitialBindState)

\* bindings of the descriptor sets bound at the compute bind point
BoundBindings(st) ==
    LET sets == st.sets["COMPUTE"]
    IN  { b \in UNION { { DescriptorWrites(sets[n])[k] :
                            k \in 1 .. Len(DescriptorWrites(sets[n])) } :
                        n \in 1 .. 2 } : TRUE }

\* images command c samples (combined image samplers of the bound sets)
Reads(c, st) ==
    IF c.op = "dispatch"
    THEN { b.resource : b \in { x \in BoundBindings(st) :
                                    x.type = "COMBINED_IMAGE_SAMPLER" } }
    ELSE {}

\* images command c writes (storage images of the bound sets; the cleared image)
Writes(c, st) ==
    CASE c.op = "dispatch" ->
            { b.resource : b \in { x \in BoundBindings(st) :
                                      x.type = "STORAGE_IMAGE" } }
      [] c.op = "clear_color_image" -> { c.image }
      [] OTHER -> {}

\* the access flag and pipeline stage with which command c writes
WriteAccess(c) == IF c.op = "dispatch" THEN "SHADER_WRITE" ELSE "TRANSFER_WRITE"

WriteStage(c) == IF c.op = "dispatch" THEN "COMPUTE_SHADER" ELSE "TRANSFER"

\* the image barriers of command c that name img
BarriersOn(c, img) ==
    IF c.op = "pipeline_barrier"
    THEN { k \in 1 .. Len(c.image_barriers) : c.image_barriers[k].image = img }
    ELSE {}

RECURSIVE LayoutBefore(_, _, _)
\* layout of img when command i of cs executes (images are created UNDEFINED)
LayoutBefore(cs, i, img) ==
    IF i <= 1 THEN "UNDEFINED"
    ELSE LET ks == BarriersOn(cs[i - 1], img)
         IN  IF ks = {} THEN LayoutBefore(cs, i - 1, img)
             ELSE cs[i - 1].image_barriers[CHOOSE k \in ks : TRUE].new_layout

\* indices of the dispatches of cs, and the pass (bound pipeline) of each
DispatchIndices(cs) == { i \in 1 .. Len(cs) : cs[i].op = "dispatch" }

RECURSIVE PassesFrom(_, _, _)
PassesFrom(cs, sts, i) ==
    IF i > Len(cs) THEN << >>
    ELSE (IF cs[i].op = "dispatch" THEN << sts[i].pipeline["COMPUTE"] >> ELSE << >>)
            \o PassesFrom(cs, sts, i + 1)

\* the passes dispatched by cs, in order
DispatchPasses(cs) == PassesFrom(cs, BindStates(cs), 1)


RECURSIVE AccessesFrom(_, _, _)
AccessesFrom(cs, i, st) ==
    IF i > Len(cs) THEN << >>
    ELSE << [reads |-> Reads(cs[i], st), writes |-> Writes(cs[i], st)] >>
            \o AccessesFrom(cs, i + 1, BindStep(st, cs[i]))

\* for each command of cs, the images it samples and the images it writes
Accesses(cs) == AccessesFrom(cs, 1, InitialBindState)

RECURSIVE ConstantsFrom(_, _, _, _)
ConstantsFrom(cs, sts, pass, i) ==
    IF i > Len(cs) THEN << >>
    ELSE (IF cs[i].op = "dispatch" /\ sts[i].pipeline["COMPUTE"] = pass
          THEN << IF sts[i].push_layout = pass /\ Len(sts[i].push) = 4
                  THEN from_ne_bytes(sts[i].push) ELSE -1 >>
          ELSE << >>)
            \o ConstantsFrom(cs, sts, pass, i + 1)

\* the inline constant each dispatch of `pass` runs with, in order (-1: none pushed
\* for that pass's layout)
PushedConstants(cs, pass) == ConstantsFrom(cs, BindStates(cs), pass, 1)

IsPrefix(s, t) == Len(s) <= Len(t) /\ SubSeq(t, 1, Len(s)) = s

(***************************************************************************)
(* GPU objects a command sequence references                               *)
(***************************************************************************)
BufferResources(buf) ==
    IF buf = "params" THEN {<<"params", "buffer">>, <<"params_mem", "memory">>} ELSE {}

\* objects named by the bindings of descriptor set ds, and the pool of ds
DescriptorSetResources(ds) ==
    IF ds = "null" THEN {}
    ELSE {<< PoolOf(ds), "pool" >>}
            \cup UNION { IF DescriptorWrites(ds)[k].type = "UNIFORM_BUFFER"
                         THEN BufferResources(DescriptorWrites(ds)[k].resource)
                         ELSE {DescriptorWrites(ds)[k].resource} \X ImageParts :
                         k \in 1 .. Len(DescriptorWrites(ds)) }

CommandResources(c) ==
    CASE c.op = "pipeline_barrier" ->
            UNION { {c.image_barriers[k].image} \X {"handle", "memory"} :
                        k \in 1 .. Len(c.image_barriers) }
                \cup UNION { BufferResources(c.buffer_barriers[k].buffer) :
                                k \in 1 .. Len(c.buffer_barriers) }
      [] c.op = "update_buffer" -> BufferResources(c.buffer)
      [] c.op = "clear_color_image" -> {c.image} \X {"handle", "memory"}
      [] c.op = "bind_descriptor_sets" ->
            UNION { DescriptorSetResources(c.sets[k]) : k \in 1 .. Len(c.sets) }
      [] OTHER -> {}

Refs(cs) == UNION { CommandResources(cs[i]) : i \in 1 .. Len(cs) }

\* r is referenced by a submitted command buffer that has not finished executing
InUse(r) ==
    \/ cmd_state = "executing" /\ r \in Refs(cmd)
    \/ gfx_state = "executing" /\ r \in Refs(gfx_cmd)

(***************************************************************************)
(* Drop impls                                                              *)
(***************************************************************************)
Destroy(d, rs, by) ==
    [r \in Resources |-> IF r \in rs THEN Append(d[r], by) ELSE d[r]]

\* mutation: the persistent descriptor pool is not destroyed
Atmosphere_drop_mutant(d) ==
    Destroy(d, AtmosphereResources \ {<<"persistent_pool", "pool">>}, "Atmosphere")

\* impl Drop for Atmosphere
Atmosphere_drop(d) == Destroy(d, AtmosphereResources, "Atmosphere")

\* mutation: the wrong descriptor pool is destroyed
PendingAtmosphere_drop_mutant(d) ==
    Destroy(d, (TransientImages \X ImageParts) \cup {<<"persistent_pool", "pool">>},
            "PendingAtmosphere")

\* impl Drop for PendingAtmosphere
PendingAtmosphere_drop(d) == Destroy(d, PendingResources, "PendingAtmosphere")

\* dropping a PendingAtmosphere value: its Drop impl, then its fields, among them
\* inner: Option<Atmosphere>
drop_in_place(d, in) ==
    IF in = "Some" THEN Atmosphere_drop(PendingAtmosphere_drop(d))
    ELSE PendingAtmosphere_drop(d)

\* mutation: the embedded Atmosphere is read without being taken out
take_mutant(in) == in

\* Option::take leaves None behind
take(in) == "None"

(***************************************************************************)
(* The caller and the GPU                                                  *)
(***************************************************************************)
\* number of acquire_ownership / draw operations recorded into cs
GfxOps(cs) ==
    Cardinality({ i \in 1 .. Len(cs) : cs[i].op \in {"pipeline_barrier", "draw"} })

\* an executing drawing command buffer references the Atmosphere
RenderExecuting ==
    gfx_state = "executing" /\ Refs(gfx_cmd) \cap AtmosphereResources # {}

\* queue_submit of the command buffer build recorded into
Submit ==
    /\ panic = "none"
    /\ pc = "done"
    /\ cmd_state = "recording"
    /\ cmd_state' = "executing"
    /\ UNCHANGED build_vars
    /\ UNCHANGED << destroyed, pending, inner, atmosphere, gfx_cmd, gfx_state, misuse >>
    /\ UNCHANGED share_vars
    /\ UNCHANGED << panic, debug_assertions, alloc_call >>

\* the GPU finishes executing it
Retire ==
    /\ cmd_state = "executing"
    /\ cmd_state' = "complete"
    /\ UNCHANGED build_vars
    /\ UNCHANGED << destroyed, pending, inner, atmosphere, gfx_cmd, gfx_state, misuse >>
    /\ UNCHANGED share_vars
    /\ UNCHANGED << panic, debug_assertions, alloc_call >>

AcquireOwnershipCommands(compute_queue_family, gfx_queue_family) ==
    LET barrier ==
            [DefaultImageMemoryBarrier EXCEPT
                !.dst_access_mask = {"SHADER_READ"},
                !.old_layout = "GENERAL",
                !.new_layout = "SHADER_READ_ONLY_OPTIMAL",
                !.src_queue_family_index = compute_queue_family,
                !.dst_queue_family_index = gfx_queue_family]
    IN  << cmd_pipeline_barrier({}, {"FRAGMENT_SHADER"},
                << [DefaultBufferMemoryBarrier EXCEPT
                        !.dst_access_mask = {"UNIFORM_READ"},
                        !.src_queue_family_index = compute_queue_family,
                        !.dst_queue_family_index = gfx_queue_family,
                        !.buffer = "params"] >>,
                << [WithImage(barrier, "transmittance") EXCEPT
                        !.old_layout = "SHADER_READ_ONLY_OPTIMAL"],
                   WithImage(barrier, "scattering"),
                   WithImage(barrier, "irradiance") >>) >>

\* debug_assert!(compute_queue_family != gfx_queue_family): compiled only with
\* debug assertions
debug_assert(condition) == debug_assertions => condition

\* mutation: the assertion is evaluated after the barrier has been recorded
AcquireOwnershipPanics_mutant(compute_queue_family, gfx_queue_family) ==
    /\ panic = "none"
    /\ pending = "live"
    /\ inner = "Some"
    /\ gfx_state = "recording"
    /\ GfxOps(gfx_cmd) < MaxGfxOps
    /\ ~debug_assert(compute_queue_family # gfx_queue_family)
    /\ gfx_cmd' = gfx_cmd \o
            AcquireOwnershipCommands(compute_queue_family, gfx_queue_family)
    /\ panic' = "acquire_ownership"
    /\ UNCHANGED build_vars
    /\ UNCHANGED << destroyed, pending, inner, atmosphere, cmd_state, gfx_state, misuse >>
    /\ UNCHANGED << share_vars, debug_assertions, alloc_call >>

\* PendingAtmosphere::acquire_ownership with its debug assertion failing: the
\* function has no return value, the assertion is its first statement and panics
AcquireOwnershipPanics(compute_queue_family, gfx_queue_family) ==
    /\ panic = "none"
    /\ pending = "live"
    /\ inner = "Some"
    /\ gfx_state = "recording"
    /\ GfxOps(gfx_cmd) < MaxGfxOps
    /\ ~debug_assert(compute_queue_family # gfx_queue_family)
    /\ panic' = "acquire_ownership"
    /\ UNCHANGED build_vars
    /\ UNCHANGED life_vars
    /\ UNCHANGED << share_vars, debug_assertions, alloc_call >>

\* PendingAtmosphere::acquire_ownership(&self, cmd, compute_queue_family,
\* gfx_queue_family), past its debug assertion
AcquireOwnership(compute_queue_family, gfx_queue_family) ==
    /\ panic = "none"
    /\ pending = "live"
    /\ inner = "Some"
    /\ gfx_state = "recording"
    /\ GfxOps(gfx_cmd) < MaxGfxOps
    /\ debug_assert(compute_queue_family # gfx_queue_family)
    /\ gfx_cmd' = gfx_cmd \o
            AcquireOwnershipCommands(compute_queue_family, gfx_queue_family)
    /\ UNCHANGED build_vars
    /\ UNCHANGED << destroyed, pending, inner, atmosphere, cmd_state, gfx_state, misuse >>
    /\ UNCHANGED share_vars
    /\ UNCHANGED << panic, debug_assertions, alloc_call >>

\* the commands of Renderer::draw for a frame index in range
DrawCommands(frame) ==
    << cmd_bind_pipeline("GRAPHICS", "render"),
       cmd_bind_descriptor_sets("GRAPHICS", "render", 0,
            << "render_ds", Frames[frame + 1] >>),
       cmd_push_constants("render", "FRAGMENT", 0,
            << <<"inverse_viewproj", 64>>, <<"camera_position", 12>>,
               <<"_padding", 4>>, <<"sun_direction", 12>> >>),
       cmd_draw(3, 1) >>

\* mutation: draw is given a reference to an Atmosphere that may have been dropped
Draw_mutant(frame) ==
    /\ panic = "none"
    /\ atmosphere # "none"
    /\ gfx_state = "recording"
    /\ GfxOps(gfx_cmd) < MaxGfxOps
    /\ gfx_cmd' = gfx_cmd \o DrawCommands(frame)
    /\ UNCHANGED build_vars
    /\ UNCHANGED << destroyed, pending, inner, atmosphere, cmd_state, gfx_state, misuse >>
    /\ UNCHANGED share_vars
    /\ UNCHANGED << panic, debug_assertions, alloc_call >>

\* Renderer::draw(cmd, &atmosphere, .., frame): the reference comes from
\* PendingAtmosphere::atmosphere or from the Atmosphere assert_ready returned
Draw(frame) ==
    /\ panic = "none"
    /\ \/ pending = "live" /\ inner = "Some"
       \/ atmosphere = "owned"
    /\ gfx_state = "recording"
    /\ GfxOps(gfx_cmd) < MaxGfxOps
    /\ gfx_cmd' = gfx_cmd \o DrawCommands(frame)
    /\ UNCHANGED build_vars
    /\ UNCHANGED << destroyed, pending, inner, atmosphere, cmd_state, gfx_state, misuse >>
    /\ UNCHANGED share_vars
    /\ UNCHANGED << panic, debug_assertions, alloc_call >>

\* queue_submit of the drawing command buffer
SubmitGfx ==
    /\ panic = "none"
    /\ gfx_state = "recording"
    /\ gfx_cmd # << >>
    /\ gfx_state' = "executing"
    /\ UNCHANGED build_vars
    /\ UNCHANGED << destroyed, pending, inner, atmosphere, cmd_state, gfx_cmd, misuse >>
    /\ UNCHANGED share_vars
    /\ UNCHANGED << panic, debug_assertions, alloc_call >>

RetireGfx ==
    /\ gfx_state = "executing"
    /\ gfx_state' = "complete"
    /\ UNCHANGED build_vars
    /\ UNCHANGED << destroyed, pending, inner, atmosphere, cmd_state, gfx_cmd, misuse >>
    /\ UNCHANGED share_vars
    /\ UNCHANGED << panic, debug_assertions, alloc_call >>

\* the caller resets the drawing command buffer for the next frame
ResetGfx ==
    /\ panic = "none"
    /\ gfx_state = "complete"
    /\ gfx_state' = "recording"
    /\ gfx_cmd' = << >>
    /\ UNCHANGED build_vars
    /\ UNCHANGED << destroyed, pending, inner, atmosphere, cmd_state, misuse >>
    /\ UNCHANGED share_vars
    /\ UNCHANGED << panic, debug_assertions, alloc_call >>

\* PendingAtmosphere::assert_ready(mut self) -> Atmosphere: self.inner.take().unwrap(),
\* then self goes out of scope.  Documented precondition: cmd has completed.
\* mutation: assert_ready borrows the PendingAtmosphere instead of consuming it
AssertReady_mutant ==
    /\ panic = "none"
    /\ pending = "live"
    /\ inner = "Some"
    /\ inner' = take(inner)
    /\ atmosphere' = "owned"
    /\ UNCHANGED << destroyed, pending, misuse >>
    /\ UNCHANGED build_vars
    /\ UNCHANGED << cmd_state, gfx_cmd, gfx_state >>
    /\ UNCHANGED share_vars
    /\ UNCHANGED << panic, debug_assertions, alloc_call >>

AssertReady ==
    /\ panic = "none"
    /\ pending = "live"
    /\ inner = "Some"
    /\ inner' = take(inner)
    /\ atmosphere' = "owned"
    /\ destroyed' = drop_in_place(destroyed, take(inner))
    /\ pending' = "ready"
    /\ misuse' = (misuse \/ cmd_state # "complete")
    /\ UNCHANGED build_vars
    /\ UNCHANGED << cmd_state, gfx_cmd, gfx_state >>
    /\ UNCHANGED share_vars
    /\ UNCHANGED << panic, debug_assertions, alloc_call >>

\* drop(pending).  Documented preconditions: cmd has completed (PendingAtmosphere)
\* and no rendering operation uses the Atmosphere dropped with it (Atmosphere).
DropPending ==
    /\ panic = "none"
    /\ pending = "live"
    /\ destroyed' = drop_in_place(destroyed, inner)
    /\ pending' = "dropped"
    /\ atmosphere' = IF inner = "Some" THEN "dropped" ELSE atmosphere
    /\ inner' = "None"
    /\ misuse' = (misuse \/ cmd_state # "complete" \/ (inner = "Some" /\ RenderExecuting))
    /\ arc' = IF inner = "Some"
              THEN Arc_drop(arc, LiveObjects(created, destroyed', other))
              ELSE arc
    /\ UNCHANGED build_vars
    /\ UNCHANGED << cmd_state, gfx_cmd, gfx_state >>
    /\ UNCHANGED << held, next_handle, handles, other >>
    /\ UNCHANGED << panic, debug_assertions, alloc_call >>

\* drop(atmosphere).  Documented precondition: not in use by a rendering operation.
DropAtmosphere ==
    /\ panic = "none"
    /\ atmosphere = "owned"
    /\ destroyed' = Atmosphere_drop(destroyed)
    /\ atmosphere' = "dropped"
    /\ misuse' = (misuse \/ RenderExecuting)
    /\ arc' = Arc_drop(arc, LiveObjects(created, destroyed', other))
    /\ UNCHANGED build_vars
    /\ UNCHANGED << pending, inner, cmd_state, gfx_cmd, gfx_state >>
    /\ UNCHANGED << held, next_handle, handles, other >>
    /\ UNCHANGED << panic, debug_assertions, alloc_call >>

\* queue families a caller may pass to acquire_ownership
QueueFamilies == {0, 1}

Life ==
    \/ Submit
    \/ Retire
    \/ \E c \in QueueFamilies, g \in QueueFamilies : AcquireOwnership(c, g)
    \/ \E c \in QueueFamilies, g \in QueueFamilies : AcquireOwnershipPanics(c, g)
    \/ \E frame \in 0 .. Len(Frames) - 1 : Draw(frame)
    \/ SubmitGfx
    \/ RetireGfx
    \/ ResetGfx
    \/ AssertReady
    \/ DropPending
    \/ DropAtmosphere

Next == Build \/ Life

\* Parameters::default() apart from order
DefaultParameters(p) ==
    /\ p.layout = "SHADER_READ_ONLY_OPTIMAL"
    /\ p.dst_access_mask = {"SHADER_READ"}
    /\ p.dst_stage_mask = {"FRAGMENT_SHADER"}
    /\ p.sizes.transmittance_mu_size = 256

\* a build with Parameters { order, ..Default::default() }, the Arc<Builder>
\* moved into it
DefaultInit == Init /\ DefaultParameters(atmosphere_params) /\ held = 0

\* build, then the caller and the GPU
Spec == DefaultInit /\ [][Next]_vars

\* Parameters { order, layout, ..Default::default() }
LayoutParameters(p) ==
    /\ p.dst_access_mask = {"SHADER_READ"}
    /\ p.dst_stage_mask = {"FRAGMENT_SHADER"}
    /\ p.sizes.transmittance_mu_size = 256

LayoutInit ==
    Init /\ LayoutParameters(atmosphere_params) /\ held = 0 /\ debug_assertions

\* build with any caller-specified final layout, then the caller and the GPU
LayoutSpec == LayoutInit /\ [][Next]_vars

\* Parameters { order, sizes.., ..Default::default() } with any sizes, among them
\* sizes whose product overflows
SizeInit ==
    /\ InitWith(SizeChoices \cup OverflowSizeChoices)
    /\ atmosphere_params.layout = "SHADER_READ_ONLY_OPTIMAL"
    /\ atmosphere_params.dst_access_mask = {"SHADER_READ"}
    /\ atmosphere_params.dst_stage_mask = {"FRAGMENT_SHADER"}
    /\ held = 0

\* build alone, for any sizes
SizeSpec == SizeInit /\ [][Build]_vars

(***************************************************************************)
(* A call of allocate on its own                                           *)
(***************************************************************************)
\* allocate returns: None when find_memory_type finds no type, otherwise the
\* memory vkAllocateMemory returns for a MemoryAllocateInfo naming that type
allocate ==
    /\ panic = "none"
    /\ alloc_call.pc = "called"
    /\ LET ty == find_memory_type(alloc_call.device_props,
                                  alloc_call.reqs.memory_type_bits,
                                  alloc_call.flags)
       IN  alloc_call' =
                IF ty = None
                THEN [alloc_call EXCEPT !.pc = "returned", !.result = None]
                ELSE [alloc_call EXCEPT
                        !.pc = "returned",
                        !.allocated = << [allocation_size |-> alloc_call.reqs.size,
                                          memory_type_index |-> ty[1]] >>,
                        !.result = Some("memory")]
    /\ UNCHANGED build_vars
    /\ UNCHANGED life_vars
    /\ UNCHANGED share_vars
    /\ UNCHANGED << panic, debug_assertions >>

\* vkAllocateMemory fails: its result is unwrapped and allocate panics
allocate_panics ==
    /\ panic = "none"
    /\ alloc_call.pc = "called"
    /\ find_memory_type(alloc_call.device_props, alloc_call.reqs.memory_type_bits,
                        alloc_call.flags) # None
    /\ alloc_call' = [alloc_call EXCEPT !.pc = "panicked"]
    /\ panic' = "allocate"
    /\ UNCHANGED build_vars
    /\ UNCHANGED life_vars
    /\ UNCHANGED share_vars
    /\ UNCHANGED debug_assertions

AllocateNext == allocate \/ allocate_panics

\* one call of allocate, for any device, requirements and flags
AllocateInit ==
    /\ Constructed(SizeChoices)
    /\ DefaultParameters(atmosphere_params)
    /\ atmosphere_params.order = 1
    /\ builder.compute_queue_family = None
    /\ held = 0
    /\ debug_assertions
    /\ alloc_call \in AllocateCalls

AllocateSpec == AllocateInit /\ [][AllocateNext]_vars

(***************************************************************************)
(* A second build on the same Builder                                      *)
(***************************************************************************)
\* Parameters of the second build: { order, ..Default::default() }
OtherParameters ==
    { p \in [order : 0 .. MaxOrder, layout : LayoutChoices,
             dst_access_mask : AccessChoices, dst_stage_mask : StageChoices,
             sizes : SizeChoices] :
        DefaultParameters(p) }

\* positions of build at which it records commands
RecordingPositions ==
    {"upload", "transmittance", "direct_irradiance", "single_scattering", "clear",
     "scattering_density", "indirect_irradiance", "multiple_scattering", "finalize"}

\* the commands build records at position `at` for Builder b, Parameters p and
\* loop variable o
CommandsAt(at, b, p, o) ==
    CASE at = "upload" -> UploadCommands
      [] at = "transmittance" -> TransmittanceCommands(p)
      [] at = "direct_irradiance" -> DirectIrradianceCommands(p)
      [] at = "single_scattering" -> SingleScatteringCommands(p)
      [] at = "clear" -> ClearCommands
      [] at = "scattering_density" -> ScatteringDensityCommands(p, o)
      [] at = "indirect_irradiance" -> IndirectIrradianceCommands(p, o)
      [] at = "multiple_scattering" -> MultipleScatteringCommands(p)
      [] at = "finalize" -> FinalizeCommands(b, p)
      [] OTHER -> << >>

\* the loop variable after the commands at position `at`
OrderAfter(at, o) ==
    CASE at = "clear" -> 2
      [] at = "multiple_scattering" -> o + 1
      [] OTHER -> o

\* the position build continues at
PositionAfter(at, p, o) ==
    CASE at = "allocate" -> "upload"
      [] at = "upload" -> "transmittance"
      [] at = "transmittance" -> "direct_irradiance"
      [] at = "direct_irradiance" -> "single_scattering"
      [] at = "single_scattering" -> "clear"
      [] at = "clear" -> LoopNext(OrderAfter(at, o), p.order)
      [] at = "scattering_density" -> "indirect_irradiance"
      [] at = "indirect_irradiance" -> "multiple_scattering"
      [] at = "multiple_scattering" -> LoopNext(OrderAfter(at, o), p.order)
      [] OTHER -> "done"

\* the caller calls Atmosphere::build a second time, passing one of the
\* Arc<Builder> handles it holds or a clone of one
StartOther ==
    /\ panic = "none"
    /\ other.pc = "idle"
    /\ held >= 1
    /\ \E p \in OtherParameters, moved \in BOOLEAN :
            /\ other' = [other EXCEPT !.pc = "allocate", !.atmosphere_params = p]
            /\ held' = IF moved THEN held - 1 ELSE held
            /\ arc' = IF moved THEN arc ELSE Arc_clone(arc)
    /\ UNCHANGED build_vars
    /\ UNCHANGED life_vars
    /\ UNCHANGED << next_handle, handles >>
    /\ UNCHANGED << panic, debug_assertions, alloc_call >>

OtherAllocate ==
    /\ panic = "none"
    /\ other.pc = "allocate"
    /\ other' = [other EXCEPT !.created = Resources,
                              !.handles = create_objects(next_handle),
                              !.pc = "upload"]
    /\ next_handle' = next_handle + Len(CreationOrder)
    /\ UNCHANGED build_vars
    /\ UNCHANGED life_vars
    /\ UNCHANGED << arc, held, handles >>
    /\ UNCHANGED << panic, debug_assertions, alloc_call >>

\* the k-th creation call of the second build returns an error
OtherAllocatePanics(k) ==
    /\ panic = "none"
    /\ other.pc = "allocate"
    /\ other' = [other EXCEPT
            !.created = CreatedBefore(k) \cap Resources,
            !.handles = [o \in CreatedBefore(k) |-> create_objects(next_handle)[o]],
            !.pc = "panicked"]
    /\ next_handle' = next_handle + (k - 1)
    /\ panic' = "build"
    /\ arc' = Arc_drop(arc, LiveObjects(created, destroyed, other'))
    /\ UNCHANGED build_vars
    /\ UNCHANGED life_vars
    /\ UNCHANGED << held, handles, debug_assertions, alloc_call >>

\* mutation: the loop variable is shared between the two calls
OtherRecord_mutant ==
    /\ panic = "none"
    /\ other.pc \in RecordingPositions \ {"finalize"}
    /\ other' = [other EXCEPT
            !.cmd = @ \o CommandsAt(other.pc, builder, other.atmosphere_params, order),
            !.order = OrderAfter(other.pc, order),
            !.pc = PositionAfter(other.pc, other.atmosphere_params, order)]
    /\ UNCHANGED build_vars
    /\ UNCHANGED life_vars
    /\ UNCHANGED << arc, held, next_handle, handles >>
    /\ UNCHANGED << panic, debug_assertions, alloc_call >>

\* one block of commands of the second build, recorded into its own command buffer
OtherRecord ==
    /\ panic = "none"
    /\ other.pc \in RecordingPositions \ {"finalize"}
    /\ other' = [other EXCEPT
            !.cmd = @ \o CommandsAt(other.pc, builder, other.atmosphere_params,
                                    other.order),
            !.order = OrderAfter(other.pc, other.order),
            !.pc = PositionAfter(other.pc, other.atmosphere_params, other.order)]
    /\ UNCHANGED build_vars
    /\ UNCHANGED life_vars
    /\ UNCHANGED << arc, held, next_handle, handles >>
    /\ UNCHANGED << panic, debug_assertions, alloc_call >>

\* the finalization barrier of the second build and the PendingAtmosphere it returns
OtherFinalize ==
    /\ panic = "none"
    /\ other.pc = "finalize"
    /\ other' = [other EXCEPT
            !.cmd = @ \o CommandsAt(other.pc, builder, other.atmosphere_params,
                                    other.order),
            !.pc = "done",
            !.pending = "live", !.inner = "Some", !.atmosphere = "embedded"]
    /\ arc' = returned_builder(arc, LiveObjects(created, destroyed, other))
    /\ UNCHANGED build_vars
    /\ UNCHANGED life_vars
    /\ UNCHANGED << held, next_handle, handles >>
    /\ UNCHANGED << panic, debug_assertions, alloc_call >>

\* assert_ready on the second PendingAtmosphere
OtherAssertReady ==
    /\ panic = "none"
    /\ other.pending = "live"
    /\ other.inner = "Some"
    /\ other' = [other EXCEPT
            !.inner = take(other.inner),
            !.atmosphere = "owned",
            !.destroyed = drop_in_place(other.destroyed, take(other.inner)),
            !.pending = "ready"]
    /\ UNCHANGED build_vars
    /\ UNCHANGED life_vars
    /\ UNCHANGED << arc, held, next_handle, handles >>
    /\ UNCHANGED << panic, debug_assertions, alloc_call >>

\* drop of the second PendingAtmosphere
OtherDropPending ==
    /\ panic = "none"
    /\ other.pending = "live"
    /\ other' = [other EXCEPT
            !.destroyed = drop_in_place(other.destroyed, other.inner),
            !.pending = "dropped",
            !.atmosphere = IF other.inner = "Some" THEN "dropped" ELSE @,
            !.inner = "None"]
    /\ arc' = IF other.inner = "Some"
              THEN Arc_drop(arc, LiveObjects(created, destroyed, other'))
              ELSE arc
    /\ UNCHANGED build_vars
    /\ UNCHANGED life_vars
    /\ UNCHANGED << held, next_handle, handles >>
    /\ UNCHANGED << panic, debug_assertions, alloc_call >>

\* drop of the second Atmosphere
OtherDropAtmosphere ==
    /\ panic = "none"
    /\ other.atmosphere = "owned"
    /\ other' = [other EXCEPT
            !.destroyed = Atmosphere_drop(other.destroyed),
            !.atmosphere = "dropped"]
    /\ arc' = Arc_drop(arc, LiveObjects(created, destroyed, other'))
    /\ UNCHANGED build_vars
    /\ UNCHANGED life_vars
    /\ UNCHANGED << held, next_handle, handles >>
    /\ UNCHANGED << panic, debug_assertions, alloc_call >>

\* the caller drops one of its Arc<Builder> handles
DropBuilder ==
    /\ panic = "none"
    /\ held >= 1
    /\ held' = held - 1
    /\ arc' = Arc_drop(arc, LiveObjects(created, destroyed, other))
    /\ UNCHANGED build_vars
    /\ UNCHANGED life_vars
    /\ UNCHANGED << next_handle, handles, other >>
    /\ UNCHANGED << panic, debug_assertions, alloc_call >>

Other ==
    \/ StartOther
    \/ OtherAllocate
    \/ \E k \in FailurePoints : OtherAllocatePanics(k)
    \/ OtherRecord
    \/ OtherFinalize
    \/ OtherAssertReady
    \/ OtherDropPending
    \/ OtherDropAtmosphere

SharedNext ==
    \/ Build
    \/ AssertReady
    \/ DropPending
    \/ DropAtmosphere
    \/ Other
    \/ DropBuilder

\* the first build with Parameters { order, ..Default::default() }
SharedInit == Init /\ DefaultParameters(atmosphere_params) /\ debug_assertions

InterleavedNext ==
    \/ Build
    \/ StartOther
    \/ OtherAllocate
    \/ \E k \in FailurePoints : OtherAllocatePanics(k)
    \/ OtherRecord
    \/ OtherFinalize

\* two builds on one Builder, their steps interleaved in any order
InterleavedSpec == SharedInit /\ [][InterleavedNext]_vars

\* two builds on one Builder, interleaved, and the drops of what they return and
\* of the caller's Builder handles, in any order
SharedSpec == SharedInit /\ [][SharedNext]_vars

(***************************************************************************)
(* Properties of the command sequence build records                        *)
(***************************************************************************)
FixedPasses == << "transmittance", "direct_irradiance", "single_scattering" >>

IterationPasses == << "scattering_density", "indirect_irradiance", "multiple_scattering" >>

RECURSIVE Repeat(_, _)
Repeat(s, n) == IF n <= 0 THEN << >> ELSE s \o Repeat(s, n - 1)

\* C1: for every order k >= 1 build dispatches the three fixed passes and then
\* k-1 times the triple scattering-density, indirect-irradiance,
\* multiple-scattering, in that order: 3 + 3*(k-1) dispatches in all, and at
\* every point of the recording the dispatches so far are a prefix of that list.
C1_DispatchSequence ==
    LET k == atmosphere_params.order
        passes == DispatchPasses(cmd)
    IN  k >= 1 =>
            /\ IsPrefix(passes, FixedPasses \o Repeat(IterationPasses, k - 1))
            /\ pc = "done" =>
                    /\ passes = FixedPasses \o Repeat(IterationPasses, k - 1)
                    /\ Len(passes) = 3 + 3 * (k - 1)
                    /\ Cardinality(DispatchIndices(cmd)) = 3 + 3 * (k - 1)

C1_Witness ==
    /\ pc = "done"
    /\ atmosphere_params.order >= 3
    /\ Len(DispatchPasses(cmd)) = 3 * atmosphere_params.order

C3_WriteHazards ==
    LET acc == Accesses(cmd)
        n == Len(cmd)
        writers == { i \in 1 .. n : acc[i].writes # {} }
        readers == { i \in 1 .. n : acc[i].reads # {} }
    IN  /\ \A w1 \in writers : \A w2 \in writers :
                w1 < w2 =>
                    \A img \in acc[w1].writes \cap acc[w2].writes :
                        \E j \in w1 + 1 .. w2 - 1 : BarriersOn(cmd[j], img) # {}
        /\ \A r \in readers : \A w \in writers :
                r < w =>
                    \A img \in acc[r].reads \cap acc[w].writes :
                        \E j \in r + 1 .. w - 1 : BarriersOn(cmd[j], img) # {}

\* both hazards occur: delta_irradiance is written twice and written after a read
C3_Witness ==
    LET acc == Accesses(cmd)
        n == Len(cmd)
    IN  /\ pc = "done"
        /\ \E a \in 1 .. n : \E b \in 1 .. n : \E c \in 1 .. n :
                /\ a < b /\ b < c
                /\ "delta_irradiance" \in acc[a].writes
                /\ "delta_irradiance" \in acc[b].reads
                /\ "delta_irradiance" \in acc[c].writes

\* C4: in the i-th loop iteration the scattering-density pass runs with the
\* inline constant i+1 and the indirect-irradiance pass with i; for order k > 1
\* the density constants run from 2 to k.
C4_InlineConstants ==
    LET k == atmosphere_params.order
        density == PushedConstants(cmd, "scattering_density")
        indirect == PushedConstants(cmd, "indirect_irradiance")
    IN  /\ \A i \in 1 .. Len(density) : density[i] = i + 1
        /\ \A i \in 1 .. Len(indirect) :
                /\ indirect[i] = i
                /\ i <= Len(density)
                /\ indirect[i] = density[i] - 1
        /\ (pc = "done" /\ k > 1) =>
                /\ Len(density) = k - 1
                /\ Len(indirect) = k - 1
                /\ density[1] = 2
                /\ density[k - 1] = k

C4_Witness ==
    /\ pc = "done"
    /\ atmosphere_params.order >= 3
    /\ PushedConstants(cmd, "scattering_density")[2] = 3
    /\ PushedConstants(cmd, "indirect_irradiance")[2] = 2

\* C5: with order == 1 no loop pass is dispatched, the only command that writes
\* the irradiance texture is the clear to zero (recorded with the image in the
\* layout the clear names), and the direct-irradiance pass writes
\* delta_irradiance only; the texture has been created.
C5_OrderOneIrradiance ==
    LET acc == Accesses(cmd)
        sts == BindStates(cmd)
        n == Len(cmd)
        W == { i \in 1 .. n : "irradiance" \in acc[i].writes }
    IN  (atmosphere_params.order = 1 /\ pc = "done") =>
            /\ \A i \in DispatchIndices(cmd) :
                    /\ sts[i].pipeline["COMPUTE"] \in
                            {"transmittance", "direct_irradiance", "single_scattering"}
                    /\ sts[i].pipeline["COMPUTE"] = "direct_irradiance" =>
                            acc[i].writes = {"delta_irradiance"}
            /\ Cardinality(W) = 1
            /\ \A i \in W :
                    /\ cmd[i].op = "clear_color_image"
                    /\ cmd[i].color = << 0, 0, 0, 0 >>
                    /\ cmd[i].layout = LayoutBefore(cmd, i, "irradiance")
            /\ ({"irradiance"} \X ImageParts) \subseteq created
            /\ \A r \in {"irradiance"} \X ImageParts : destroyed[r] = << >>

C5_Witness ==
    /\ atmosphere_params.order = 1
    /\ pc = "done"
    /\ \E i \in 1 .. Len(cmd) : cmd[i].op = "clear_color_image"
    /\ \E i \in DispatchIndices(cmd) :
            BindStates(cmd)[i].pipeline["COMPUTE"] = "direct_irradiance"

\* the queue-family pairs of the barriers of pipeline barrier f
FamilyPairs(f) ==
    { << f.buffer_barriers[k].src_queue_family_index,
         f.buffer_barriers[k].dst_queue_family_index >> :
            k \in 1 .. Len(f.buffer_barriers) }
        \cup
    { << f.image_barriers[k].src_queue_family_index,
         f.image_barriers[k].dst_queue_family_index >> :
            k \in 1 .. Len(f.image_barriers) }

\* C9: in the finalization barrier, with a compute family different from the
\* graphics family the parameter-buffer barrier and the three image barriers go
\* from the compute family to the graphics family; otherwise each has equal
\* source and destination family (no ownership transfer).
C9_FinalQueueFamilies ==
    pc = "done" =>
        LET f == cmd[Len(cmd)]
            c == builder.compute_queue_family
            g == builder.gfx_queue_family
        IN  /\ f.op = "pipeline_barrier"
            /\ Len(f.buffer_barriers) = 1
            /\ Len(f.image_barriers) = 3
            /\ IF c # None /\ c[1] # g
               THEN FamilyPairs(f) = { << c[1], g >> }
               ELSE \A pr \in FamilyPairs(f) : pr[1] = pr[2]

C9_Witness ==
    /\ pc = "done"
    /\ builder.compute_queue_family # None
    /\ builder.compute_queue_family[1] # builder.gfx_queue_family
    /\ cmd[Len(cmd)].op = "pipeline_barrier"
    /\ cmd[Len(cmd)].image_barriers[1].src_queue_family_index
            = builder.compute_queue_family[1]

\* C10: for every order k >= 1 the finalization barrier is the last command; it
\* names exactly the three output textures and the parameter buffer; each
\* texture's old layout is the layout the texture is in at that point
\* (transmittance shader-read-only, scattering and irradiance general); and it
\* moves all three to the caller's layout with the caller's destination access
\* and stage masks.
C10_FinalBarrier ==
    (pc = "done" /\ atmosphere_params.order >= 1) =>
        LET n == Len(cmd)
            f == cmd[n]
        IN  /\ f.op = "pipeline_barrier"
            /\ f.dst_stage_mask = atmosphere_params.dst_stage_mask
            /\ Len(f.buffer_barriers) = 1
            /\ f.buffer_barriers[1].buffer = "params"
            /\ Len(f.image_barriers) = 3
            /\ { f.image_barriers[k].image : k \in 1 .. 3 } = FinalImages
            /\ \A k \in 1 .. 3 :
                    LET b == f.image_barriers[k]
                    IN  /\ b.old_layout = LayoutBefore(cmd, n, b.image)
                        /\ b.old_layout =
                                (IF b.image = "transmittance"
                                 THEN "SHADER_READ_ONLY_OPTIMAL" ELSE "GENERAL")
                        /\ b.new_layout = atmosphere_params.layout
                        /\ b.dst_access_mask = atmosphere_params.dst_access_mask

C10_Witness ==
    /\ pc = "done"
    /\ atmosphere_params.order >= 2
    /\ atmosphere_params.layout = "TRANSFER_SRC_OPTIMAL"
    /\ atmosphere_params.dst_access_mask = {"TRANSFER_READ"}
    /\ LayoutBefore(cmd, Len(cmd) + 1, "irradiance") = "TRANSFER_SRC_OPTIMAL"


(***************************************************************************)
(* Properties of the resource lifecycle                                    *)
(***************************************************************************)
\* C6: dropping a PendingAtmosphere without assert_ready destroys every object
\* build created exactly once (the five transient images and the transient
\* descriptor pool by the PendingAtmosphere's Drop, the three final textures,
\* the parameter buffer with its memory and the persistent pool by the embedded
\* Atmosphere's Drop); no object is ever destroyed twice.
C6_DropPendingReleasesAll ==
    /\ \A r \in Resources : Len(destroyed[r]) <= 1
    /\ pending = "dropped" =>
            /\ created = Resources
            /\ \A r \in PendingResources : destroyed[r] = << "PendingAtmosphere" >>
            /\ \A r \in AtmosphereResources : destroyed[r] = << "Atmosphere" >>

C6_Witness ==
    /\ pending = "dropped"
    /\ cmd_state = "complete"
    /\ ~misuse
    /\ \A r \in created : Len(destroyed[r]) = 1

\* C7: after assert_ready the five transient images and the transient pool have
\* been destroyed exactly once, by the PendingAtmosphere; the final textures,
\* parameter buffer and persistent pool are alive as long as the returned
\* Atmosphere is, are destroyed exactly once when it is dropped, and are never
\* destroyed by the PendingAtmosphere.
C7_AssertReadyKeepsTerminal ==
    /\ \A r \in AtmosphereResources :
            \A i \in 1 .. Len(destroyed[r]) : destroyed[r][i] # "PendingAtmosphere"
    /\ pending = "ready" =>
            /\ inner = "None"
            /\ atmosphere \in {"owned", "dropped"}
            /\ \A r \in PendingResources : destroyed[r] = << "PendingAtmosphere" >>
            /\ atmosphere = "owned" =>
                    \A r \in AtmosphereResources : destroyed[r] = << >>
            /\ atmosphere = "dropped" =>
                    \A r \in AtmosphereResources : destroyed[r] = << "Atmosphere" >>

C7_Witness ==
    /\ pending = "ready"
    /\ atmosphere = "dropped"
    /\ \A r \in AtmosphereResources : destroyed[r] = << "Atmosphere" >>
    /\ \A r \in PendingResources : destroyed[r] = << "PendingAtmosphere" >>

\* C8: as long as the caller has kept the documented preconditions (assert_ready
\* and the drop of a PendingAtmosphere only after the command buffer passed to
\* build has completed, the drop of an Atmosphere only while no render using it
\* is executing), no step destroys an object that a submitted, still executing
\* command buffer references.
C8_NoDestroyWhileInUse ==
    [][ ~misuse' =>
            \A r \in Resources :
                Len(destroyed'[r]) > Len(destroyed[r]) => ~InUse(r) ]_vars

\* assert_ready has destroyed the transient objects while a render was executing
C8_Witness ==
    /\ ~misuse
    /\ pending = "ready"
    /\ atmosphere = "owned"
    /\ gfx_state = "executing"
    /\ Refs(gfx_cmd) \cap AtmosphereResources # {}
    /\ \A r \in PendingResources : Len(destroyed[r]) = 1


(***************************************************************************)
(* Properties of the ownership transfer                                    *)
(***************************************************************************)
\* the acquire_ownership barriers in cs that pair with the release barrier build
\* recorded for Builder b: from b's compute family to b's graphics family
PairedAcquires(b, cs) ==
    { i \in 1 .. Len(cs) :
        /\ cs[i].op = "pipeline_barrier"
        /\ b.compute_queue_family # None
        /\ FamilyPairs(cs[i]) =
                { << b.compute_queue_family[1], b.gfx_queue_family >> } }

\* the image barrier of pipeline barrier f that names img
BarrierOn(f, img) == f.image_barriers[CHOOSE k \in BarriersOn(f, img) : TRUE]

\* C11: the two finalization forms end in the same state.  With a distinct
\* compute family, after build's release barrier and the acquire_ownership
\* barrier that pairs with it each output texture is in the caller-specified
\* layout, and the acquire barrier's old and new layouts equal the release
\* barrier's; without one, build's barrier alone leaves each texture in the
\* caller-specified layout.
C11_FinalizationFormsAgree ==
    pc = "done" =>
        LET n == Len(cmd)
            release == cmd[n]
            c == builder.compute_queue_family
            g == builder.gfx_queue_family
        IN  IF c # None /\ c[1] # g
            THEN \A i \in PairedAcquires(builder, gfx_cmd) : \A img \in FinalImages :
                    /\ LayoutBefore(cmd \o << gfx_cmd[i] >>, n + 2, img)
                            = atmosphere_params.layout
                    /\ BarrierOn(gfx_cmd[i], img).old_layout
                            = BarrierOn(release, img).old_layout
                    /\ BarrierOn(gfx_cmd[i], img).new_layout
                            = BarrierOn(release, img).new_layout
            ELSE \A img \in FinalImages :
                    LayoutBefore(cmd, n + 1, img) = atmosphere_params.layout

(***************************************************************************)
(* Properties of builds that share a Builder                               *)
(***************************************************************************)
\* C12: whatever the order in which the caller drops its Builder handles and the
\* PendingAtmospheres and Atmospheres built from the Builder, Drop for Builder
\* (which destroys its pipelines, layouts, shader modules and sampler) runs at
\* most once, runs once all of them are gone, and runs only when no build is
\* in progress and no object created by a build still exists.
C12_BuilderOutlivesAtmospheres ==
    /\ Len(arc.drops) <= 1
    /\ (arc.strong = 0) <=> (Len(arc.drops) = 1)
    /\ panic # "build" => \A i \in 1 .. Len(arc.drops) : arc.drops[i] = {}
    /\ (panic # "build" /\ Len(arc.drops) = 1) =>
            /\ LiveObjects(created, destroyed, other) = {}
            /\ pc = "done" /\ atmosphere = "dropped"
            /\ other.pc = "idle" \/ (other.pc = "done" /\ other.atmosphere = "dropped")
    /\ ( /\ held = 0
         /\ atmosphere = "dropped"
         /\ other.pc = "idle" \/ other.atmosphere = "dropped" ) => Len(arc.drops) = 1

\* both builds done, one Atmosphere taken out by assert_ready and dropped, the
\* other dropped inside its PendingAtmosphere, and the Builder dropped last
C12_Witness ==
    /\ Len(arc.drops) = 1
    /\ pending = "ready" /\ atmosphere = "dropped"
    /\ other.pending = "dropped" /\ other.atmosphere = "dropped"
    /\ \A r \in Resources : Len(destroyed[r]) = 1 /\ Len(other.destroyed[r]) = 1

\* the handles in handle map h
HandlesOf(h) == { h[o] : o \in DOMAIN h }

\* C13: the two builds on one Builder produce disjoint resource sets: every
\* image, image view, device memory, buffer, descriptor pool and descriptor set
\* of a build has a handle of its own, and no handle of one build is a handle
\* of the other.
C13_DisjointResources ==
    /\ HandlesOf(handles) \cap HandlesOf(other.handles) = {}
    /\ \A o1 \in DOMAIN handles : \A o2 \in DOMAIN handles :
            o1 # o2 => handles[o1] # handles[o2]
    /\ \A o1 \in DOMAIN other.handles : \A o2 \in DOMAIN other.handles :
            o1 # o2 => other.handles[o1] # other.handles[o2]
    /\ pc \notin {"allocate", "panicked"} => DOMAIN handles = Objects
    /\ other.pc \notin {"idle", "allocate", "panicked"} =>
            DOMAIN other.handles = Objects

\* both builds have created their objects, with different Parameters
C13_Witness ==
    /\ DOMAIN handles = Objects
    /\ DOMAIN other.handles = Objects
    /\ other.atmosphere_params # atmosphere_params
    /\ pc = "done" /\ other.pc = "done"

RECURSIVE RecordedFrom(_, _, _, _)
\* the commands a build that runs alone records from position `at` on
RecordedFrom(at, b, p, o) ==
    IF at = "done" THEN << >>
    ELSE CommandsAt(at, b, p, o)
            \o RecordedFrom(PositionAfter(at, p, o), b, p, OrderAfter(at, o))

\* C14: build never modifies the Builder, and when two builds through the same
\* Builder that record into different command buffers are interleaved in any
\* order, each command buffer receives exactly the command sequence the build
\* would record alone.
C14_BuildsIndependent ==
    /\ [][builder' = builder]_vars
    /\ [](LET alone == RecordedFrom("upload", builder, atmosphere_params, 0)
              other_alone == RecordedFrom("upload", builder,
                                          other.atmosphere_params, 0)
          IN  /\ IsPrefix(cmd, alone)
              /\ pc = "done" => cmd = alone
              /\ IsPrefix(other.cmd, other_alone)
              /\ other.pc = "done" => other.cmd = other_alone)

\* the second build was called after the first and created its objects before
\* it, and both have run through loops of different lengths
C14_Witness ==
    /\ pc = "done" /\ other.pc = "done"
    /\ atmosphere_params.order = 3 /\ other.atmosphere_params.order = 2
    /\ other.handles[<<"params", "buffer">>] < handles[<<"params", "buffer">>]

(***************************************************************************)
(* Properties of single images and of the parameter block                  *)
(***************************************************************************)
\* the bindings of img in the descriptor sets dispatch i of cs executes with
BindingsOf(cs, i, img) ==
    { b \in BoundBindings(BindStates(cs)[i]) : b.resource = img }

\* C15: for every order the transmittance texture is written by exactly one
\* dispatch, that of the transmittance pass; the barrier recorded right after
\* that dispatch moves it from general to shader-read-only-optimal; from then
\* until the finalization barrier it stays in that layout and every dispatch
\* that binds it binds it as a sampled image, never as a storage image.
C15_TransmittanceSampledOnly ==
    pc = "done" =>
        LET acc == Accesses(cmd)
            sts == BindStates(cmd)
            n == Len(cmd)
            W == { i \in 1 .. n : "transmittance" \in acc[i].writes }
        IN  /\ Cardinality(W) = 1
            /\ \A w \in W :
                    /\ cmd[w].op = "dispatch"
                    /\ sts[w].pipeline["COMPUTE"] = "transmittance"
                    /\ w < n
                    /\ BarriersOn(cmd[w + 1], "transmittance") # {}
                    /\ BarrierOn(cmd[w + 1], "transmittance").old_layout = "GENERAL"
                    /\ BarrierOn(cmd[w + 1], "transmittance").new_layout
                            = "SHADER_READ_ONLY_OPTIMAL"
                    /\ \A j \in (w + 2) .. n :
                            LayoutBefore(cmd, j, "transmittance")
                                = "SHADER_READ_ONLY_OPTIMAL"
                    /\ \A j \in (w + 1) .. n :
                            cmd[j].op = "dispatch" =>
                                \A b \in BindingsOf(cmd, j, "transmittance") :
                                    b.type = "COMBINED_IMAGE_SAMPLER"

\* a build with a loop, whose multiple-scattering pass samples transmittance
C15_Witness ==
    /\ pc = "done"
    /\ atmosphere_params.order >= 2
    /\ \E j \in DispatchIndices(cmd) :
            /\ BindStates(cmd)[j].pipeline["COMPUTE"] = "multiple_scattering"
            /\ "transmittance" \in Accesses(cmd)[j].reads
            /\ LayoutBefore(cmd, j, "transmittance") = "SHADER_READ_ONLY_OPTIMAL"

\* the dispatches of cs that belong to the loop
LoopDispatches(cs) ==
    { i \in DispatchIndices(cs) :
        BindStates(cs)[i].pipeline["COMPUTE"] \in
            { IterationPasses[k] : k \in 1 .. Len(IterationPasses) } }

\* C16: for every order delta_rayleigh and delta_mie are each written by exactly
\* one dispatch, that of single scattering; the loop only samples them and no
\* dispatch outside the loop samples them; the images written inside the loop
\* are scattering_density, delta_irradiance, delta_multiple_scattering,
\* irradiance and scattering and no others.
C16_DeltasWrittenOnce ==
    pc = "done" =>
        LET acc == Accesses(cmd)
            sts == BindStates(cmd)
            loop == LoopDispatches(cmd)
        IN  /\ \A img \in {"delta_rayleigh", "delta_mie"} :
                LET W == { i \in 1 .. Len(cmd) : img \in acc[i].writes }
                IN  /\ Cardinality(W) = 1
                    /\ \A w \in W : /\ cmd[w].op = "dispatch"
                                     /\ sts[w].pipeline["COMPUTE"] = "single_scattering"
                    /\ \A i \in DispatchIndices(cmd) :
                            img \in acc[i].reads => i \in loop
                    /\ \A i \in loop : \A b \in BindingsOf(cmd, i, img) :
                            b.type = "COMBINED_IMAGE_SAMPLER"
            /\ \A i \in loop :
                    acc[i].writes \subseteq
                        {"scattering_density", "delta_irradiance",
                         "delta_multiple_scattering", "irradiance", "scattering"}
            /\ loop # {} =>
                    UNION { acc[i].writes : i \in loop } =
                        {"scattering_density", "delta_irradiance",
                         "delta_multiple_scattering", "irradiance", "scattering"}

\* two loop iterations, both sampling delta_rayleigh and delta_mie
C16_Witness ==
    /\ pc = "done"
    /\ atmosphere_params.order = 3
    /\ Cardinality({ i \in LoopDispatches(cmd) :
                        {"delta_rayleigh", "delta_mie"}
                            \subseteq Accesses(cmd)[i].reads }) >= 4

\* C17 as stated: the initialization barrier moves every intermediate and every
\* output image from undefined to general.
C17_InitBarrierAllGeneral ==
    Len(cmd) >= 2 =>
        \A img \in Images :
            /\ BarriersOn(cmd[2], img) # {}
            /\ BarrierOn(cmd[2], img).old_layout = "UNDEFINED"
            /\ BarrierOn(cmd[2], img).new_layout = "GENERAL"

\* C17: the initialization barrier, recorded before the first dispatch, names
\* every image except scattering_density; it moves irradiance from undefined
\* to transfer-dst-optimal (the layout of the clear) and the other six from
\* undefined to general; scattering_density stays undefined until the barrier
\* at the top of a loop iteration moves it to general.  Every dispatch finds
\* the images it writes in general and the clear finds irradiance in the
\* layout it names.
C17_InitBarrier ==
    /\ Len(cmd) >= 2 =>
            /\ cmd[2].op = "pipeline_barrier"
            /\ \A d \in DispatchIndices(cmd) : d > 2
            /\ { cmd[2].image_barriers[k].image :
                    k \in 1 .. Len(cmd[2].image_barriers) }
                    = Images \ {"scattering_density"}
            /\ \A k \in 1 .. Len(cmd[2].image_barriers) :
                    LET b == cmd[2].image_barriers[k]
                    IN  /\ b.old_layout = "UNDEFINED"
                        /\ b.new_layout = (IF b.image = "irradiance"
                                           THEN "TRANSFER_DST_OPTIMAL"
                                           ELSE "GENERAL")
    /\ \A i \in 1 .. Len(cmd) :
            /\ cmd[i].op = "dispatch" =>
                    \A img \in Accesses(cmd)[i].writes :
                        LayoutBefore(cmd, i, img) = "GENERAL"
            /\ cmd[i].op = "clear_color_image" =>
                    LayoutBefore(cmd, i, cmd[i].image) = cmd[i].layout
            /\ (\A j \in 1 .. (i - 1) : BarriersOn(cmd[j], "scattering_density") = {})
                    => LayoutBefore(cmd, i, "scattering_density") = "UNDEFINED"

\* the clear and a scattering-density dispatch have been recorded
C17_Witness ==
    /\ pc = "done"
    /\ atmosphere_params.order >= 2
    /\ LayoutBefore(cmd, 3, "irradiance") = "TRANSFER_DST_OPTIMAL"
    /\ LayoutBefore(cmd, 3, "scattering_density") = "UNDEFINED"
    /\ \E i \in DispatchIndices(cmd) :
            "scattering_density" \in Accesses(cmd)[i].writes

\* C18: for every order k > 1 the irradiance texture is cleared to zero exactly
\* once, before the first indirect-irradiance dispatch; between the clear and
\* that dispatch there is a barrier on it from transfer write (transfer stage)
\* to compute shader read and write, and nothing writes it in between.
C18_IrradianceStartsFromZero ==
    (pc = "done" /\ atmosphere_params.order > 1) =>
        LET acc == Accesses(cmd)
            sts == BindStates(cmd)
            clears == { i \in 1 .. Len(cmd) :
                            /\ cmd[i].op = "clear_color_image"
                            /\ cmd[i].image = "irradiance" }
            passes == { i \in DispatchIndices(cmd) :
                            sts[i].pipeline["COMPUTE"] = "indirect_irradiance" }
        IN  /\ Cardinality(clears) = 1
            /\ passes # {}
            /\ \A c \in clears : \A d \in passes :
                    /\ cmd[c].color = << 0, 0, 0, 0 >>
                    /\ c < d
                    /\ (\A e \in passes : d <= e) =>
                            /\ \A i \in (c + 1) .. (d - 1) :
                                    "irradiance" \notin acc[i].writes
                            /\ \E j \in (c + 1) .. (d - 1) :
                                    /\ cmd[j].op = "pipeline_barrier"
                                    /\ "TRANSFER" \in cmd[j].src_stage_mask
                                    /\ "COMPUTE_SHADER" \in cmd[j].dst_stage_mask
                                    /\ \E k \in BarriersOn(cmd[j], "irradiance") :
                                            LET b == cmd[j].image_barriers[k]
                                            IN  /\ "TRANSFER_WRITE" \in b.src_access_mask
                                                /\ {"SHADER_READ", "SHADER_WRITE"}
                                                        \subseteq b.dst_access_mask

\* the indirect-irradiance pass has accumulated into the cleared texture twice
C18_Witness ==
    /\ pc = "done"
    /\ atmosphere_params.order = 3
    /\ Cardinality({ i \in DispatchIndices(cmd) :
                        "irradiance" \in Accesses(cmd)[i].writes }) = 2

\* C19: the update of the parameter buffer is the first command build records,
\* and before every dispatch, after the update, there is a pipeline barrier
\* from the transfer stage to the compute stage with a buffer barrier on the
\* parameter buffer from transfer write to uniform read.
C19_ParamsUploadedFirst ==
    /\ Len(cmd) >= 1 =>
            /\ cmd[1].op = "update_buffer"
            /\ cmd[1].buffer = "params"
    /\ \A d \in DispatchIndices(cmd) :
            \E j \in 2 .. (d - 1) :
                /\ cmd[j].op = "pipeline_barrier"
                /\ "TRANSFER" \in cmd[j].src_stage_mask
                /\ "COMPUTE_SHADER" \in cmd[j].dst_stage_mask
                /\ \E k \in 1 .. Len(cmd[j].buffer_barriers) :
                        LET b == cmd[j].buffer_barriers[k]
                        IN  /\ b.buffer = "params"
                            /\ "TRANSFER_WRITE" \in b.src_access_mask
                            /\ "UNIFORM_READ" \in b.dst_access_mask

\* the transmittance dispatch, which reads the parameter block, has been recorded
C19_Witness ==
    /\ Len(cmd) >= 5
    /\ cmd[1].op = "update_buffer"
    /\ cmd[5].op = "dispatch"
    /\ BindStates(cmd)[5].sets["COMPUTE"][1] = "params_ds"

(***************************************************************************)
(* Properties of drawing                                                   *)
(***************************************************************************)
\* a draw of Renderer::draw is among the commands cs
DrawRecorded(cs) == \E i \in 1 .. Len(cs) : cs[i].op = "draw"

\* C20 as stated: Renderer::draw is recorded only with an Atmosphere that
\* assert_ready has handed out.
C20_DrawOnlyWhenReady ==
    DrawRecorded(gfx_cmd) => pending = "ready"

\* C20: Renderer::draw is recorded only with a reference to an Atmosphere that
\* exists, none of whose objects has been destroyed: either the Atmosphere
\* assert_ready returned, or the Atmosphere still embedded in a live
\* PendingAtmosphere, which PendingAtmosphere::atmosphere hands out before the
\* precompute is known to be complete.
C20_DrawNeedsLiveAtmosphere ==
    [][ ( /\ Len(gfx_cmd') > Len(gfx_cmd)
          /\ gfx_cmd'[Len(gfx_cmd')].op = "draw" )
        => /\ \/ pending = "live" /\ inner = "Some" /\ atmosphere = "embedded"
              \/ pending = "ready" /\ atmosphere = "owned"
           /\ \A r \in AtmosphereResources : destroyed[r] = << >> ]_vars

\* a draw recorded through PendingAtmosphere::atmosphere while the command
\* buffer of build is still executing
C20_Witness ==
    /\ DrawRecorded(gfx_cmd)
    /\ pending = "live"
    /\ inner = "Some"
    /\ cmd_state = "executing"

(***************************************************************************)
(* Operations on a built Atmosphere                                        *)
(***************************************************************************)
\* descriptor types through which a shader can only read
ReadOnlyDescriptorTypes ==
    {"UNIFORM_BUFFER", "COMBINED_IMAGE_SAMPLER", "INPUT_ATTACHMENT"}

\* images and buffers command c, recorded with binding state st, can write: the
\* target of a transfer, and every resource bound through a writable descriptor
\* at the bind point the command executes with
RecordedWrites(c, st) ==
    LET bound(bp) ==
            UNION { { DescriptorWrites(st.sets[bp][n])[k] :
                        k \in 1 .. Len(DescriptorWrites(st.sets[bp][n])) } :
                    n \in 1 .. 2 }
        writable(bp) ==
            { b.resource : b \in { x \in bound(bp) :
                                      x.type \notin ReadOnlyDescriptorTypes } }
    IN  CASE c.op = "draw" -> writable("GRAPHICS")
          [] c.op = "dispatch" -> writable("COMPUTE")
          [] c.op = "update_buffer" -> { c.buffer }
          [] c.op = "clear_color_image" -> { c.image }
          [] OTHER -> {}

\* the frame indices of the draws recorded into cs, in order
DrawnFrames(cs) ==
    LET F[i \in 0 .. Len(cs)] ==
            IF i = 0 THEN << >>
            ELSE IF cs[i].op = "bind_descriptor_sets" /\ cs[i].bind_point = "GRAPHICS"
                 THEN Append(F[i - 1],
                             CHOOSE f \in 0 .. Len(Frames) - 1 :
                                Frames[f + 1] = cs[i].sets[2])
                 ELSE F[i - 1]
    IN  F[Len(cs)]

\* C21: once build has returned, an operation on the Atmosphere records no write
\* to the transmittance, scattering or irradiance table or to the parameter
\* buffer.  Every step that records a draw, whatever the frame index and however
\* many draws came before, appends only commands that write none of them, uses the
\* descriptor set and handles the Atmosphere stores, and leaves untouched the
\* command buffer build recorded into, the objects of the Atmosphere and their
\* handles; the accessors are reads of stored fields and record nothing.
C21_DrawWritesNoTable ==
    [][LET n == Len(gfx_cmd)
           sts == BindStates(gfx_cmd')
       IN  (Len(gfx_cmd') > n /\ gfx_cmd'[Len(gfx_cmd')].op = "draw") =>
                /\ pc = "done"
                /\ SubSeq(gfx_cmd', 1, n) = gfx_cmd
                /\ \A i \in n + 1 .. Len(gfx_cmd') :
                        /\ gfx_cmd'[i].op # "pipeline_barrier"
                        /\ RecordedWrites(gfx_cmd'[i], sts[i])
                                \cap (FinalImages \cup {"params"}) = {}
                /\ sts[Len(gfx_cmd')].sets["GRAPHICS"][1] = "render_ds"
                /\ cmd' = cmd
                /\ created' = created
                /\ destroyed' = destroyed
                /\ handles' = handles]_vars

\* two draws with different frame indices have been recorded against the
\* Atmosphere assert_ready returned
C21_Witness ==
    /\ atmosphere = "owned"
    /\ DrawnFrames(gfx_cmd) = << 1, 0 >>

(***************************************************************************)
(* Failures                                                                *)
(***************************************************************************)
\* the barriers of cs that name the same queue family as source and destination
SameFamilyBarriers(cs) ==
    { i \in 1 .. Len(cs) :
        /\ cs[i].op = "pipeline_barrier"
        /\ \/ \E k \in 1 .. Len(cs[i].image_barriers) :
                    cs[i].image_barriers[k].src_queue_family_index
                        = cs[i].image_barriers[k].dst_queue_family_index
           \/ \E k \in 1 .. Len(cs[i].buffer_barriers) :
                    cs[i].buffer_barriers[k].src_queue_family_index
                        = cs[i].buffer_barriers[k].dst_queue_family_index }

\* C22: in a build with debug assertions, acquire_ownership called with equal
\* compute and graphics queue families panics before it records anything: the
\* step that raises the panic leaves the command buffer and every object as they
\* were, so the command buffer never holds a barrier between equal families.
\* The failure is a panic that ends the program, not a value handed to the caller.
C22_AcquireAssertsFirst ==
    /\ [][(panic = "none" /\ panic' = "acquire_ownership") =>
                /\ debug_assertions
                /\ gfx_cmd' = gfx_cmd
                /\ UNCHANGED << cmd, pending, inner, atmosphere, destroyed, gfx_state >>]_vars
    /\ [](debug_assertions => SameFamilyBarriers(gfx_cmd) = {})
    /\ [][panic = "acquire_ownership" =>
                UNCHANGED << panic, cmd, gfx_cmd, pending, inner, atmosphere, destroyed >>]_vars

\* acquire_ownership panicked on equal families after an earlier call with
\* different families had recorded its barrier
C22_Witness ==
    /\ panic = "acquire_ownership"
    /\ Len(gfx_cmd) = 1
    /\ gfx_cmd[1].op = "pipeline_barrier"

\* C23: when a creation call inside build fails, build panics: no
\* PendingAtmosphere and no Atmosphere exists, nothing was recorded, the objects
\* created are exactly those created before the failed call, and no handle was
\* issued after it (the call is not retried, nothing is created in its place).
\* Conversely a PendingAtmosphere that exists is made of all of its objects.
C23_FailedBuildReturnsNothing ==
    /\ pc = "panicked" =>
            /\ panic = "build"
            /\ pending = "none" /\ inner = "None" /\ atmosphere = "none"
            /\ cmd = << >>
            /\ \E k \in 1 .. Len(CreationOrder) :
                    /\ DOMAIN handles = CreatedBefore(k)
                    /\ created = CreatedBefore(k) \cap Resources
    /\ next_handle = 1 + Cardinality(DOMAIN handles)
                        + Cardinality(DOMAIN other.handles)
    /\ pending # "none" => pc = "done" /\ panic # "build"
    /\ pc = "done" => created = Resources /\ DOMAIN handles = Objects

\* build panicked with the transmittance image created and its view not
C23_Witness ==
    /\ pc = "panicked"
    /\ <<"transmittance", "handle">> \in created
    /\ <<"transmittance", "view">> \notin created

(***************************************************************************)
(* Dependency chains                                                       *)
(***************************************************************************)
RECURSIVE ChainTo(_, _, _)
\* the barriers among commands j .. f of cs from which an execution dependency
\* chain leads to barrier f: each barrier's destination stages meet the source
\* stages of the next barrier of the chain
ChainTo(cs, j, f) ==
    IF j > f THEN {}
    ELSE IF j = f THEN {f}
    ELSE LET later == ChainTo(cs, j + 1, f)
         IN  IF /\ cs[j].op = "pipeline_barrier"
                /\ \E l \in later : cs[j].dst_stage_mask \cap cs[l].src_stage_mask # {}
             THEN later \cup {j}
             ELSE later

\* the write of img by command w of cs is made available by a barrier after it
\* whose source stages and source access cover the write, and from which a
\* dependency chain leads to barrier f
WriteOrderedBefore(cs, w, img, f) ==
    \E j \in ChainTo(cs, w + 1, f) : \E k \in BarriersOn(cs[j], img) :
        /\ WriteStage(cs[w]) \in cs[j].src_stage_mask
        /\ WriteAccess(cs[w]) \in cs[j].image_barriers[k].src_access_mask

\* C24: for every order k >= 1, a command recorded after build that accesses an
\* output table at the caller's dst_stage_mask with the caller's dst_access_mask
\* is ordered after every write to that table: the last command of build is a
\* barrier whose destination is that stage and, for the table, that access, and
\* every dispatch that writes the table and the clear of the irradiance table is
\* made available by a barrier from which a dependency chain leads to it.
C24_LaterAccessOrdered ==
    (pc = "done" /\ atmosphere_params.order >= 1) =>
        LET acc == Accesses(cmd)
            f == Len(cmd)
        IN  /\ cmd[f].op = "pipeline_barrier"
            /\ cmd[f].dst_stage_mask = atmosphere_params.dst_stage_mask
            /\ \A img \in FinalImages :
                    /\ \E k \in BarriersOn(cmd[f], img) :
                            cmd[f].image_barriers[k].dst_access_mask
                                = atmosphere_params.dst_access_mask
                    /\ \E w \in 1 .. f : img \in acc[w].writes
                    /\ \A w \in 1 .. f :
                            img \in acc[w].writes => WriteOrderedBefore(cmd, w, img, f)

\* a build of order 3 for a caller that copies the tables out in the same command
\* buffer: the irradiance table was cleared and written by two dispatches
C24_Witness ==
    /\ pc = "done"
    /\ atmosphere_params.order = 3
    /\ atmosphere_params.dst_stage_mask = {"TRANSFER"}
    /\ atmosphere_params.dst_access_mask = {"TRANSFER_READ"}
    /\ Cardinality({ w \in 1 .. Len(cmd) :
                        "irradiance" \in Accesses(cmd)[w].writes }) = 3

(***************************************************************************)
(* Extents                                                                 *)
(***************************************************************************)
\* u32 value n is the exact product of a and b
IsProduct(n, a, b) == to_ne_bytes(n) \o << 0, 0, 0, 0 >> = wide_mul(a, b)

\* once build has returned, the Atmosphere reports the extents computed from the
\* Parameters, every image was created with the extent of its table, and every
\* dispatch has the extent of each image it writes as its grid
ExtentsAgree ==
    pc = "done" =>
        LET p == atmosphere_params
            acc == Accesses(cmd)
        IN  /\ Atmosphere_extent("transmittance", p) = transmittance_extent(p)
            /\ Atmosphere_extent("irradiance", p) = irradiance_extent(p)
            /\ Atmosphere_extent("scattering", p) = scattering_extent(p)
            /\ \A img \in {"transmittance", "irradiance", "delta_irradiance"} :
                    image_extent(img, p).depth = 1
            /\ \A img \in FinalImages :
                    /\ image_extent(img, p).width = Atmosphere_extent(img, p).width
                    /\ image_extent(img, p).height = Atmosphere_extent(img, p).height
            /\ image_extent("scattering", p) = scattering_extent(p)
            /\ \A i \in DispatchIndices(cmd) :
                    /\ acc[i].writes # {}
                    /\ \A img \in acc[i].writes :
                            [width |-> cmd[i].x, height |-> cmd[i].y, depth |-> cmd[i].z]
                                = image_extent(img, p)

\* the three extents are the sizes they are documented to be, the scattering
\* width being the product of its two sizes
ExtentsAreSizes(p) ==
    /\ transmittance_extent(p) =
            [width |-> p.sizes.transmittance_mu_size,
             height |-> p.sizes.transmittance_r_size]
    /\ irradiance_extent(p) =
            [width |-> p.sizes.irradiance_mu_s_size,
             height |-> p.sizes.irradiance_r_size]
    /\ scattering_extent(p).height = p.sizes.scattering_mu_size
    /\ scattering_extent(p).depth = p.sizes.scattering_r_size
    /\ IsProduct(scattering_extent(p).width,
                 p.sizes.scattering_nu_size, p.sizes.scattering_mu_s_size)

offset_of(t, name) ==
    t.offsets[CHOOSE i \in 1 .. Len(t.fields) : t.fields[i][1] = name]

\* the type of the field called name in struct type t
field_type(t, name) ==
    t.fields[CHOOSE i \in 1 .. Len(t.fields) : t.fields[i][1] = name][2]

\* vectors and the scalar that follows each, in documented order
ParamGroups ==
    << << "solar_irradiance", "sun_angular_radius" >>,
       << "rayleigh_scattering", "bottom_radius" >>,
       << "mie_scattering", "top_radius" >>,
       << "mie_extinction", "mie_phase_function_g" >>,
       << "ground_albedo", "mu_s_min" >> >>

\* the resolution fields, in documented order
ParamSizes ==
    << "transmittance_mu_size", "transmittance_r_size", "scattering_r_size",
       "scattering_mu_size", "scattering_mu_s_size", "scattering_nu_size",
       "irradiance_mu_s_size", "irradiance_r_size" >>

ParamProfiles == << "rayleigh_density", "mie_density", "absorbtion_density" >>

\* C26: the packed parameter block has the documented layout: five groups of a
\* 3-float vector at 16 g and a scalar at 16 g + 12 (offsets 0..79), the
\* absorption extinction at 80..91, the eight u32 resolution fields at 92..123,
\* the three density profiles from offset 128, each of their layers (five floats)
\* on a 16-byte boundary, every field 4-byte aligned, and a total size of 320
\* bytes, which is the size of the update build records.
C26_ParamsLayout ==
    /\ \A g \in 1 .. 5 :
            /\ offset_of(ParamsRaw, ParamGroups[g][1]) = 16 * (g - 1)
            /\ field_type(ParamsRaw, ParamGroups[g][1]).size = 12
            /\ offset_of(ParamsRaw, ParamGroups[g][2]) = 16 * (g - 1) + 12
    /\ offset_of(ParamsRaw, "absorbtion_extinction") = 80
    /\ field_type(ParamsRaw, "absorbtion_extinction").size = 12
    /\ \A k \in 1 .. 8 : offset_of(ParamsRaw, ParamSizes[k]) = 92 + 4 * (k - 1)
    /\ \A k \in 1 .. 3 :
            LET profile == field_type(ParamsRaw, ParamProfiles[k])
                layers == field_type(profile, "layers")
                start == offset_of(ParamsRaw, ParamProfiles[k])
                            + offset_of(profile, "layers")
            IN  /\ start = 128 + 64 * (k - 1)
                /\ \A l \in 1 .. 2 :
                        /\ (start + layers.offsets[l]) % 16 = 0
                        /\ Len(layers.fields[l][2].fields) = 5
                        /\ layers.fields[l][2].offsets = << 0, 4, 8, 12, 16 >>
    /\ [i \in 1 .. Len(ParamsRaw.fields) |-> ParamsRaw.fields[i][1]]
            = ParamGroups[1] \o ParamGroups[2] \o ParamGroups[3] \o ParamGroups[4]
                \o ParamGroups[5] \o << "absorbtion_extinction" >>
                \o ParamSizes \o ParamProfiles
    /\ \A i \in 1 .. Len(ParamsRaw.fields) : ParamsRaw.offsets[i] % 4 = 0
    /\ ParamsRaw.size = 320
    /\ \A i \in 1 .. Len(cmd) :
            cmd[i].op = "update_buffer" =>
                /\ cmd[i].offset = 0
                /\ cmd[i].size = ParamsRaw.size

\* build has recorded the update of the parameter buffer with the block
C26_Witness ==
    /\ pc = "transmittance"
    /\ atmosphere_params.order = 2
    /\ cmd[1].op = "update_buffer"
    /\ cmd[1].size = ParamsRaw.size

(***************************************************************************)
(* Descriptor pools                                                        *)
(***************************************************************************)
\* number of bindings of descriptor type ty over the layouts of the sets in sets
BindingsOfType(sets, ty) ==
    LET total[i \in 0 .. Len(sets)] ==
            IF i = 0 THEN 0
            ELSE total[i - 1]
                    + Cardinality({ k \in 1 .. Len(ds_layout(sets[i])) :
                                        ds_layout(sets[i])[k] = ty })
    IN  total[Len(sets)]

\* the sets that exist and were allocated from pool
SetsFrom(pool) ==
    { o[1] : o \in { x \in DOMAIN handles : x[2] = "set" /\ PoolOf(x[1]) = pool } }

\* the capacity of pool is exactly what sets needs
SizedExactly(pool, sets) ==
    LET info == DescriptorPoolCreateInfo(pool)
    IN  /\ info.max_sets = Len(sets)
        /\ \A ty \in DOMAIN info.pool_sizes :
                info.pool_sizes[ty] = BindingsOfType(sets, ty)
        /\ \A i \in 1 .. Len(sets) : \A k \in 1 .. Len(ds_layout(sets[i])) :
                ds_layout(sets[i])[k] \in DOMAIN info.pool_sizes

\* C27: the transient descriptor pool is sized exactly: the sets allocated from
\* it are the seven of the allocate call, seven is its maximum set count, and
\* for each descriptor type its capacity is the number of bindings of that type
\* over the layouts of the seven sets: 1 uniform buffer, 12 combined image
\* samplers and 10 storage images.  The descriptors build writes into each set
\* have the types of its layout.
C27_TransientPoolExact ==
    LET sets == AllocatedSets("descriptor_pool")
    IN  /\ SetsFrom("descriptor_pool") \subseteq { sets[i] : i \in 1 .. Len(sets) }
        /\ pc \notin {"allocate", "panicked"} =>
                /\ SetsFrom("descriptor_pool") = { sets[i] : i \in 1 .. Len(sets) }
                /\ Cardinality(SetsFrom("descriptor_pool")) = 7
                /\ SizedExactly("descriptor_pool", sets)
                /\ BindingsOfType(sets, "UNIFORM_BUFFER") = 1
                /\ BindingsOfType(sets, "COMBINED_IMAGE_SAMPLER") = 12
                /\ BindingsOfType(sets, "STORAGE_IMAGE") = 10
                /\ \A i \in 1 .. Len(sets) :
                        [k \in 1 .. Len(DescriptorWrites(sets[i])) |->
                            DescriptorWrites(sets[i])[k].type] = ds_layout(sets[i])

\* build has allocated its seven transient sets and recorded its first commands
C27_Witness ==
    /\ pc = "transmittance"
    /\ Cardinality(SetsFrom("descriptor_pool")) = 7
    /\ atmosphere_params.order = 3

(***************************************************************************)
(* The Atmosphere's descriptor set                                         *)
(***************************************************************************)
\* the resources bound in descriptor set ds
BoundResources(ds) ==
    { DescriptorWrites(ds)[k].resource : k \in 1 .. Len(DescriptorWrites(ds)) }

\* the set comes from a pool that is a resource of the Atmosphere and not of the
\* PendingAtmosphere: only Drop for Atmosphere destroys the pool, and dropping
\* the PendingAtmosphere after assert_ready leaves it in place
RenderSetPoolOwned ==
    LET pool == << PoolOf("render_ds"), "pool" >>
    IN  /\ pool \in AtmosphereResources \ PendingResources
        /\ pending # "none" => pool \in created
        /\ \A i \in 1 .. Len(destroyed[pool]) : destroyed[pool][i] = "Atmosphere"
        /\ atmosphere \in {"embedded", "owned"} => destroyed[pool] = << >>

\* C28 as stated: when build has returned the Atmosphere's descriptor set is
\* bound to the parameter buffer and to each of the three final textures, and
\* its pool is owned by the Atmosphere.
C28_RenderSetBindsAllTables ==
    /\ pending # "none" => BoundResources("render_ds") = {"params"} \cup FinalImages
    /\ RenderSetPoolOwned

\* C28: when build has returned the Atmosphere's descriptor set is bound to the
\* parameter buffer (binding 0, uniform buffer) and to the transmittance and
\* scattering textures (bindings 1 and 2, combined image samplers in
\* shader-read-only layout), as its layout declares; the irradiance texture is
\* not bound in it.  The set is allocated from a pool sized for exactly these
\* bindings, which the Atmosphere, not the PendingAtmosphere, owns.
C28_RenderSetBound ==
    /\ pending # "none" =>
            /\ DescriptorWrites("render_ds")
                    = << Uniform("params"), Sampled("transmittance"),
                         Sampled("scattering") >>
            /\ "irradiance" \notin BoundResources("render_ds")
            /\ [k \in 1 .. 3 |-> DescriptorWrites("render_ds")[k].type]
                    = ds_layout("render_ds")
            /\ SizedExactly("persistent_pool", AllocatedSets("persistent_pool"))
            /\ <<"render_ds", "set">> \in DOMAIN handles
            /\ \A img \in BoundResources("render_ds") \cap FinalImages :
                    <<img, "view">> \in created
    /\ RenderSetPoolOwned

\* assert_ready has dropped the PendingAtmosphere and its transient pool, and
\* the Atmosphere it returned still has the pool of its descriptor set
C28_Witness ==
    /\ pending = "ready"
    /\ atmosphere = "owned"
    /\ destroyed[<<"descriptor_pool", "pool">>] = << "PendingAtmosphere" >>
    /\ destroyed[<<"persistent_pool", "pool">>] = << >>

(***************************************************************************)
(* Producers of the sampled images                                         *)
(***************************************************************************)
\* command j of cs discards the contents of img (a transition from UNDEFINED)
Discards(cs, j, img) ==
    \E k \in BarriersOn(cs[j], img) : cs[j].image_barriers[k].old_layout = "UNDEFINED"

\* index of the last command before i that writes img; 0 when there is none
LastWrite(cs, i, img) ==
    LET acc == Accesses(cs)
        W == { w \in 1 .. i - 1 : img \in acc[w].writes }
    IN  IF W = {} THEN 0 ELSE CHOOSE w \in W : \A v \in W : v <= w

\* the order dispatch i of cs computes: 1 for the passes before the loop, n for
\* the three passes of the iteration `for order in 2..=k`
OrderOf(cs, i) ==
    1 + Cardinality({ j \in DispatchIndices(cs) :
                        /\ j <= i
                        /\ BindStates(cs)[j].pipeline["COMPUTE"] =
                                "scattering_density" })

\* the pass, and the order it runs for, whose output `pass` of order n expects
\* to sample from img
Producer(pass, n, img) ==
    CASE img = "transmittance" -> [pass |-> "transmittance", order |-> 1]
      [] img \in {"delta_rayleigh", "delta_mie"} ->
            [pass |-> "single_scattering", order |-> 1]
      [] img = "delta_irradiance" /\ n = 2 ->
            [pass |-> "direct_irradiance", order |-> 1]
      [] img = "delta_irradiance" /\ n > 2 ->
            [pass |-> "indirect_irradiance", order |-> n - 1]
      [] img = "delta_multiple_scattering" ->
            [pass |-> "multiple_scattering", order |-> n - 1]
      [] img = "scattering_density" ->
            [pass |-> "scattering_density", order |-> n]
      [] OTHER -> [pass |-> "none", order |-> 0]

\* dispatch i of cs finds in img what its producer wrote: the last command
\* writing img before i is the producer's dispatch and nothing discarded img
\* in between
HoldsProducerOutput(cs, i, img) ==
    LET w == LastWrite(cs, i, img)
        sts == BindStates(cs)
        want == Producer(sts[i].pipeline["COMPUTE"], OrderOf(cs, i), img)
    IN  /\ w > 0
        /\ cs[w].op = "dispatch"
        /\ sts[w].pipeline["COMPUTE"] = want.pass
        /\ OrderOf(cs, w) = want.order
        /\ \A j \in w + 1 .. i - 1 : ~Discards(cs, j, img)

\* the sampled bindings of the order-2 iteration that no command has written
UnwrittenAtOrderTwo(cs, i, img) ==
    /\ img = "delta_multiple_scattering"
    /\ OrderOf(cs, i) = 2
    /\ BindStates(cs)[i].pipeline["COMPUTE"] \in
            {"scattering_density", "indirect_irradiance"}

\* C29 as stated: every image bound as a sampled input of a dispatch has been
\* written by an earlier command and holds the output of its producer, for
\* every iteration n from 2 to k (delta_multiple_scattering of order n-1 for
\* the density and indirect-irradiance passes included).
C29_SampledWasWritten ==
    pc = "done" =>
        \A i \in DispatchIndices(cmd) : \A img \in Accesses(cmd)[i].reads :
            HoldsProducerOutput(cmd, i, img)

\* C29: every image bound as a sampled input of a dispatch holds the output of
\* its producer (delta_irradiance and delta_multiple_scattering of order n-1,
\* delta_rayleigh and delta_mie of single scattering, scattering_density of the
\* same iteration, transmittance of the transmittance pass), except
\* delta_multiple_scattering in the iteration of order 2, which the density and
\* indirect-irradiance dispatches have bound though no command has written it.
C29_SampledHoldsProducer ==
    pc = "done" =>
        \A i \in DispatchIndices(cmd) : \A img \in Accesses(cmd)[i].reads :
            IF UnwrittenAtOrderTwo(cmd, i, img)
            THEN LastWrite(cmd, i, img) = 0
            ELSE HoldsProducerOutput(cmd, i, img)

\* order 3: the density dispatch of the third order samples the
\* delta_multiple_scattering written by the second order's last pass, and the
\* second order's density dispatch has it bound unwritten
C29_Witness ==
    /\ pc = "done"
    /\ atmosphere_params.order = 3
    /\ \E i, j \in DispatchIndices(cmd) :
            /\ OrderOf(cmd, i) = 3 /\ OrderOf(cmd, j) = 2
            /\ BindStates(cmd)[i].pipeline["COMPUTE"] = "scattering_density"
            /\ BindStates(cmd)[j].pipeline["COMPUTE"] = "scattering_density"
            /\ "delta_multiple_scattering" \in Accesses(cmd)[i].reads
            /\ "delta_multiple_scattering" \in Accesses(cmd)[j].reads
            /\ LastWrite(cmd, i, "delta_multiple_scattering") > j
            /\ LastWrite(cmd, j, "delta_multiple_scattering") = 0

(***************************************************************************)
(* Layout tracking                                                         *)
(***************************************************************************)
\* the image barriers of cs as pairs << command index, barrier index >>
ImageBarriersOf(cs) ==
    { jk \in (1 .. Len(cs)) \X (1 .. Cardinality(Images)) :
        /\ cs[jk[1]].op = "pipeline_barrier"
        /\ jk[2] <= Len(cs[jk[1]].image_barriers) }

\* every image barrier of cs names as old layout the layout its image is in,
\* or UNDEFINED
OldLayoutsTracked(cs) ==
    \A jk \in ImageBarriersOf(cs) :
        LET b == cs[jk[1]].image_barriers[jk[2]]
        IN  b.old_layout \in {LayoutBefore(cs, jk[1], b.image), "UNDEFINED"}

\* index of the last command before i that discards img; 0 when there is none
LastDiscard(cs, i, img) ==
    LET D == { j \in 1 .. i - 1 : Discards(cs, j, img) }
    IN  IF D = {} THEN 0 ELSE CHOOSE j \in D : \A h \in D : h <= j

\* a command between j and i writes img (acc: the accesses of the commands)
WrittenSince(acc, j, i, img) ==
    \E w \in j + 1 .. i - 1 : img \in acc[w].writes

\* C30 as stated: for every order each image barrier of build names the layout
\* its image is in or UNDEFINED, and an image discarded by a barrier is not
\* sampled afterwards before a command has written it again.
C30_LayoutTracking ==
    pc = "done" =>
        LET acc == Accesses(cmd)
        IN  /\ OldLayoutsTracked(cmd)
            /\ \A i \in DispatchIndices(cmd) : \A img \in acc[i].reads :
                    LET j == LastDiscard(cmd, i, img)
                    IN  j > 0 => WrittenSince(acc, j, i, img)

\* C30: for every order each image barrier of build names the layout its image
\* is in or UNDEFINED, and an image discarded by a barrier is not sampled
\* afterwards before a command has written it again, except
\* delta_multiple_scattering, which the first barrier discards and which the
\* density and indirect-irradiance dispatches of order 2 have bound as a
\* sampled image before its first write.
C30_LayoutsTracked ==
    pc = "done" =>
        LET acc == Accesses(cmd)
        IN  /\ OldLayoutsTracked(cmd)
            /\ \A i \in DispatchIndices(cmd) : \A img \in acc[i].reads :
                    LET j == LastDiscard(cmd, i, img)
                    IN  j > 0 =>
                            \/ WrittenSince(acc, j, i, img)
                            \/ /\ UnwrittenAtOrderTwo(cmd, i, img)
                               /\ \A w \in 1 .. i - 1 : img \notin acc[w].writes
                               /\ \A g \in 1 .. j - 1 : cmd[g].op # "pipeline_barrier"

\* order 3: the loop-top barrier of the third order discards scattering_density
\* while it is SHADER_READ_ONLY_OPTIMAL, and the multiple-scattering dispatch
\* samples it after the density dispatch has rewritten it
C30_Witness ==
    /\ pc = "done"
    /\ atmosphere_params.order = 3
    /\ \E j \in 1 .. Len(cmd) : \E i \in DispatchIndices(cmd) :
            /\ j < i
            /\ Discards(cmd, j, "scattering_density")
            /\ LayoutBefore(cmd, j, "scattering_density") = "SHADER_READ_ONLY_OPTIMAL"
            /\ "scattering_density" \in Accesses(cmd)[i].reads
            /\ WrittenSince(Accesses(cmd), j, i, "scattering_density")

(***************************************************************************)
(* Layouts at the dispatches                                               *)
(***************************************************************************)
\* the image bindings of the descriptor sets dispatch i of cs executes with
ImageBindings(cs, i) ==
    { b \in BoundBindings(BindStates(cs)[i]) :
        b.type \in {"STORAGE_IMAGE", "COMBINED_IMAGE_SAMPLER"} }

\* the layout each descriptor type is written with
DeclaredLayout(type) ==
    IF type = "STORAGE_IMAGE" THEN "GENERAL" ELSE "SHADER_READ_ONLY_OPTIMAL"

\* C31: at every dispatch of build each image of the bound descriptor sets is
\* in the layout its descriptor declares, GENERAL for storage images and
\* SHADER_READ_ONLY_OPTIMAL for combined image samplers, in every iteration.
C31_LayoutsMatchDescriptors ==
    pc = "done" =>
        \A i \in DispatchIndices(cmd) : \A b \in ImageBindings(cmd, i) :
            /\ b.layout = DeclaredLayout(b.type)
            /\ LayoutBefore(cmd, i, b.resource) = b.layout

\* order 3: the density dispatch of the third iteration finds
\* delta_multiple_scattering read-only and scattering_density general
C31_Witness ==
    /\ pc = "done"
    /\ atmosphere_params.order = 3
    /\ \E i \in DispatchIndices(cmd) :
            /\ OrderOf(cmd, i) = 3
            /\ BindStates(cmd)[i].pipeline["COMPUTE"] = "scattering_density"
            /\ Sampled("delta_multiple_scattering") \in ImageBindings(cmd, i)
            /\ Storage("scattering_density") \in ImageBindings(cmd, i)
            /\ LayoutBefore(cmd, i, "delta_multiple_scattering") =
                    "SHADER_READ_ONLY_OPTIMAL"
            /\ LayoutBefore(cmd, i, "scattering_density") = "GENERAL"

(***************************************************************************)
(* Pipelines and descriptor sets at the dispatches                         *)
(***************************************************************************)
\* the descriptor set build allocates for a pass
pass_ds(pass) ==
    CASE pass = "transmittance" -> "transmittance_ds"
      [] pass = "direct_irradiance" -> "direct_irradiance_ds"
      [] pass = "single_scattering" -> "single_scattering_ds"
      [] pass = "scattering_density" -> "scattering_density_ds"
      [] pass = "indirect_irradiance" -> "indirect_irradiance_ds"
      [] pass = "multiple_scattering" -> "multiple_scattering_ds"
      [] OTHER -> "null"

\* vk::PipelineLayoutCreateInfo of each pass in Builder::new
PipelineLayoutCreateInfo(pass) ==
    [set_layouts |-> << ds_layout("params_ds"), ds_layout(pass_ds(pass)) >>,
     push_constant_ranges |->
        IF pass \in {"indirect_irradiance", "scattering_density",
                     "multiple_scattering"}
        THEN << [stage_flags |-> "COMPUTE", offset |-> 0, size |-> 4] >>
        ELSE << >>]

\* two pipeline layouts are compatible for set n (numbered from 0)
CompatibleForSet(a, b, n) ==
    /\ PipelineLayoutCreateInfo(a).push_constant_ranges =
            PipelineLayoutCreateInfo(b).push_constant_ranges
    /\ \A k \in 1 .. n + 1 :
            PipelineLayoutCreateInfo(a).set_layouts[k] =
                PipelineLayoutCreateInfo(b).set_layouts[k]

\* index of the last command before i that binds set n; 0 when there is none
LastBind(cs, i, n) ==
    LET B == { j \in 1 .. i - 1 :
                /\ cs[j].op = "bind_descriptor_sets"
                /\ cs[j].bind_point = "COMPUTE"
                /\ cs[j].first_set <= n
                /\ n < cs[j].first_set + Len(cs[j].sets) }
    IN  IF B = {} THEN 0 ELSE CHOOSE j \in B : \A h \in B : h <= j

\* the pass of the k-th dispatch of build: the three fixed passes, then the
\* three passes of each loop iteration
PassAt(k) ==
    IF k <= Len(FixedPasses) THEN FixedPasses[k]
    ELSE IterationPasses[((k - Len(FixedPasses) - 1) % Len(IterationPasses)) + 1]

\* the number of dispatches of cs up to and including command i
DispatchRank(cs, i) == Cardinality({ j \in DispatchIndices(cs) : j <= i })

\* C32: at every dispatch of build the bound compute pipeline is that of the
\* pass being dispatched, set 0 is the parameters set and set 1 the pass's own
\* set, each bound with a layout compatible with the pipeline's; the
\* direct-irradiance and single-scattering dispatches rebind set 1 only and
\* run with the set 0 bound for the transmittance pass.
C32_BoundAtDispatch ==
    pc = "done" =>
        \A i \in DispatchIndices(cmd) :
            LET st == BindStates(cmd)[i]
                pass == PassAt(DispatchRank(cmd, i))
                b0 == LastBind(cmd, i, 0)
                b1 == LastBind(cmd, i, 1)
            IN  /\ st.pipeline["COMPUTE"] = pass
                /\ st.sets["COMPUTE"] = << "params_ds", pass_ds(pass) >>
                /\ b0 > 0 /\ b1 > 0
                /\ CompatibleForSet(cmd[b0].layout, pass, 0)
                /\ CompatibleForSet(cmd[b1].layout, pass, 1)
                /\ pass \in {"direct_irradiance", "single_scattering"} =>
                        /\ cmd[b1].first_set = 1
                        /\ cmd[b0].layout = "transmittance"
                        /\ b0 < b1

\* order 2: the single-scattering dispatch runs with the set 0 bound for the
\* transmittance pass, and the loop's passes have rebound both sets
C32_Witness ==
    /\ pc = "done"
    /\ atmosphere_params.order = 2
    /\ \E i, j \in DispatchIndices(cmd) :
            /\ PassAt(DispatchRank(cmd, i)) = "single_scattering"
            /\ cmd[LastBind(cmd, i, 0)].layout = "transmittance"
            /\ cmd[LastBind(cmd, i, 1)].layout = "single_scattering"
            /\ PassAt(DispatchRank(cmd, j)) = "multiple_scattering"
            /\ LastBind(cmd, j, 0) = LastBind(cmd, j, 1)
            /\ BindStates(cmd)[j].sets["COMPUTE"] =
                    << "params_ds", "multiple_scattering_ds" >>

(***************************************************************************)
(* Coverage of each access by the last barrier on its image                *)
(***************************************************************************)
\* index of the last command before i that carries a barrier on img; 0 when
\* there is none
LastBarrierOn(cs, i, img) ==
    LET B == { j \in 1 .. i - 1 : BarriersOn(cs[j], img) # {} }
    IN  IF B = {} THEN 0 ELSE CHOOSE j \in B : \A h \in B : h <= j

\* the last barrier on img before command i of cs has `stage` among its
\* destination stages, `access` in its destination access mask and leaves img
\* in `layout`
Covered(cs, i, img, stage, access, layout) ==
    LET j == LastBarrierOn(cs, i, img)
    IN  /\ j > 0
        /\ stage \in cs[j].dst_stage_mask
        /\ \A k \in BarriersOn(cs[j], img) :
                /\ access \in cs[j].image_barriers[k].dst_access_mask
                /\ cs[j].image_barriers[k].new_layout = layout

\* every dispatch of cs is covered for each image it samples and each image it
\* writes
DispatchesCovered(cs) ==
    LET acc == Accesses(cs)
    IN  \A i \in DispatchIndices(cs) :
            /\ \A img \in acc[i].reads :
                    Covered(cs, i, img, "COMPUTE_SHADER", "SHADER_READ",
                            "SHADER_READ_ONLY_OPTIMAL")
            /\ \A img \in acc[i].writes :
                    Covered(cs, i, img, "COMPUTE_SHADER", "SHADER_WRITE", "GENERAL")

\* every clear of cs is covered for the image it clears
ClearsCovered(cs) ==
    \A i \in 1 .. Len(cs) :
        cs[i].op = "clear_color_image" =>
            Covered(cs, i, cs[i].image, "TRANSFER", "TRANSFER_WRITE", cs[i].layout)

\* C33: every command of build that accesses an image, each dispatch and the
\* clear of the irradiance table, is covered by the most recent earlier barrier
\* on that image: its destination stages include the command's stage, its
\* destination access includes the command's access and its new layout is the
\* layout the command requires.
C33_AccessesCovered ==
    pc = "done" => (DispatchesCovered(cmd) /\ ClearsCovered(cmd))

(***************************************************************************)
(* Fallible calls and recorded commands                                    *)
(***************************************************************************)
\* C34: every fallible creation call of build comes before the first command
\* it records: a build that has failed has recorded no command, a build that
\* has recorded a command has made every creation call, and no step of a build
\* that has recorded a command fails.
C34_FailuresPrecedeRecording ==
    /\ [](panic = "build" => cmd = << >>)
    /\ [](cmd # << >> => (created = Resources /\ DOMAIN handles = Objects))
    /\ [][cmd # << >> => panic' = "none"]_vars
    /\ [][(panic = "none" /\ panic' = "build") => (pc = "allocate" /\ cmd' = << >>)]_vars

\* the last creation call of build, the allocation of the parameter buffer's
\* memory, has failed: the buffer exists and nothing was recorded
C34_Witness ==
    /\ panic = "build"
    /\ cmd = << >>
    /\ <<"params", "buffer">> \in DOMAIN handles
    /\ <<"params_mem", "memory">> \notin DOMAIN handles

(***************************************************************************)
(* Release on the exits of build                                           *)
(***************************************************************************)
\* C35: on every exit path of build, the path where a creation call fails
\* midway included, every object the call had created is released exactly
\* once: after a failed build each created object has one release, and after
\* a successful one they belong to the returned PendingAtmosphere; no object is
\* ever released twice.
C35_ReleasedOnEveryExit ==
    /\ \A r \in Resources : Len(destroyed[r]) <= 1
    /\ panic = "build" => \A r \in created : Len(destroyed[r]) = 1
    /\ pc = "done" => (created = Resources /\ pending # "none")

(***************************************************************************)
(* Orders 0 and 1                                                          *)
(***************************************************************************)
\* the parameters p with order 0 replaced by order 1 and order 1 by order 0
OtherLowOrder(p) == [p EXCEPT !.order = 1 - p.order]

\* C36: with order 0 build records exactly the command sequence it records
\* with order 1: the loop over 2..=order is empty for both, and order - 1 is
\* computed only inside the loop, where order >= 2, so that the subtraction
\* never goes below zero for any order.
C36_OrderZeroAsOrderOne ==
    /\ (pc = "done" /\ atmosphere_params.order <= 1) =>
            /\ cmd = RecordedFrom("upload", builder,
                                  OtherLowOrder(atmosphere_params), 0)
            /\ LoopDispatches(cmd) = {}
            /\ DispatchPasses(cmd) = FixedPasses
    /\ pc \in { IterationPasses[k] : k \in 1 .. Len(IterationPasses) } =>
            /\ order >= 2
            /\ order <= atmosphere_params.order
            /\ indirect_irradiance_constant(order) >= 1
    /\ \A k \in 1 .. Len(PushedConstants(cmd, "indirect_irradiance")) :
            PushedConstants(cmd, "indirect_irradiance")[k] = k

\* a finished build of order 0: three dispatches and no pushed constant
C36_Witness ==
    /\ pc = "done"
    /\ atmosphere_params.order = 0
    /\ Len(DispatchPasses(cmd)) = 3
    /\ PushedConstants(cmd, "indirect_irradiance") = << >>
    /\ cmd = RecordedFrom("upload", builder, [atmosphere_params EXCEPT !.order = 1], 0)

(***************************************************************************)
(* The memory type allocate chooses                                        *)
(***************************************************************************)
\* the indices find_memory_type may return: below memory_type_count, named by
\* type_bits, with every requested property flag
SuitableTypes(device_props, type_bits, flags) ==
    { i \in 0 .. device_props.memory_type_count - 1 :
        /\ bit_set(type_bits, i)
        /\ flags \subseteq device_props.memory_types[i] }

\* C37: find_memory_type returns the smallest index below memory_type_count
\* whose bit is set in type_bits and whose memory type has all the requested
\* flags, and None when there is none; allocate allocates from exactly that
\* type, and allocates nothing when the result is None.
C37_SmallestSuitableType ==
    LET S == SuitableTypes(alloc_call.device_props,
                           alloc_call.reqs.memory_type_bits, alloc_call.flags)
        ty == find_memory_type(alloc_call.device_props,
                               alloc_call.reqs.memory_type_bits, alloc_call.flags)
    IN  /\ S = {} => ty = None
        /\ S # {} => \E i \in S : ty = Some(i) /\ \A j \in S : i <= j
        /\ alloc_call.pc \in {"idle", "called", "panicked"} =>
                alloc_call.allocated = << >>
        /\ alloc_call.pc = "returned" =>
                IF S = {}
                THEN alloc_call.allocated = << >> /\ alloc_call.result = None
                ELSE /\ alloc_call.result # None
                     /\ alloc_call.allocated =
                            << [allocation_size |-> alloc_call.reqs.size,
                                memory_type_index |-> ty[1]] >>
                     /\ ty[1] \in S

\* allocate has returned memory of type 2 on a device whose type 0 is named by
\* type_bits but lacks a requested flag and whose type 1 is not named
C37_Witness ==
    /\ alloc_call.pc = "returned"
    /\ alloc_call.device_props.memory_type_count = 3
    /\ alloc_call.reqs.memory_type_bits = 5
    /\ alloc_call.flags = {"DEVICE_LOCAL"}
    /\ alloc_call.device_props.memory_types[0] = {"HOST_VISIBLE"}
    /\ alloc_call.device_props.memory_types[1] = {"DEVICE_LOCAL"}
    /\ alloc_call.device_props.memory_types[2] = {"DEVICE_LOCAL", "HOST_VISIBLE"}
    /\ alloc_call.allocated[1].memory_type_index = 2

(***************************************************************************)
(* The Atmosphere embedded in a PendingAtmosphere                          *)
(***************************************************************************)
\* C38: whenever a PendingAtmosphere exists its embedded Atmosphere is present,
\* so that acquire_ownership, atmosphere and assert_ready never unwrap None:
\* inner is Some exactly while the PendingAtmosphere lives, the step that
\* empties it ends the PendingAtmosphere, and nothing is applied to a
\* PendingAtmosphere that assert_ready or a drop has consumed.
C38_InnerPresent ==
    /\ [](pending = "live" <=> inner = "Some")
    /\ [](pending = "live" => atmosphere = "embedded")
    /\ [][(inner = "Some" /\ inner' = "None") => pending' \in {"ready", "dropped"}]_vars
    /\ [][(pending = "ready" \/ pending = "dropped") =>
                (pending' = pending /\ inner' = "None")]_vars

\* acquire_ownership has recorded its barrier through the embedded Atmosphere
\* and assert_ready has then taken it out
C38_Witness ==
    /\ pending = "ready"
    /\ inner = "None"
    /\ atmosphere = "owned"
    /\ \E i \in 1 .. Len(gfx_cmd) :
            /\ gfx_cmd[i].op = "pipeline_barrier"
            /\ gfx_cmd[i].image_barriers # << >>
====
